---------------------------- MODULE Spec2Model ----------------------------
(***************************************************************************)
(* A model of the content-acquisition layer of extract-text:               *)
(*   - the archive unpacker (TextExtractor._extract_from_archive and the   *)
(*     per-container loops it dispatches to), specification Spec;          *)
(*   - the remote fetcher (TextExtractor.extract_from_url, _is_safe_url    *)
(*     and the image pass over fetched HTML), specification SpecUrl.       *)
(*                                                                         *)
(* Strings of the program are sequences of one-character strings, so that  *)
(* replace/strip/split/lower are computed the way the code computes them.  *)
(***************************************************************************)
EXTENDS Integers, Sequences, FiniteSets, TLC

(***************************************************************************)
(* String helpers (Python str methods used by the code).                   *)
(***************************************************************************)

\* str.lower() on the characters the model's names are written with.
LowerChar(c) ==
    CASE c = "A" -> "a" [] c = "B" -> "b" [] c = "C" -> "c" [] c = "D" -> "d" [] c = "E" -> "e" [] c = "F" -> "f" [] c = "G" -> "g"
      [] c = "H" -> "h" [] c = "I" -> "i" [] c = "J" -> "j" [] c = "K" -> "k" [] c = "L" -> "l" [] c = "M" -> "m" [] c = "N" -> "n"
      [] c = "O" -> "o" [] c = "P" -> "p" [] c = "Q" -> "q" [] c = "R" -> "r" [] c = "S" -> "s" [] c = "T" -> "t" [] c = "U" -> "u"
      [] c = "V" -> "v" [] c = "W" -> "w" [] c = "X" -> "x" [] c = "Y" -> "y" [] c = "Z" -> "z"
      [] OTHER -> c

Lower(s) == [i \in 1..Len(s) |-> LowerChar(s[i])]

\* s.startswith(p)
StartsWith(s, p) == Len(p) <= Len(s) /\ SubSeq(s, 1, Len(p)) = p

\* s.endswith(p)
EndsWith(s, p) == Len(p) <= Len(s) /\ SubSeq(s, Len(s) - Len(p) + 1, Len(s)) = p

\* p in s (substring test)
Contains(s, p) == \E i \in 1..(Len(s) - Len(p) + 1) : SubSeq(s, i, i + Len(p) - 1) = p

\* c in s (character test)
HasChar(s, c) == \E i \in 1..Len(s) : s[i] = c

\* s.replace('..', ''): left to right, non-overlapping
RECURSIVE RemoveDotDot(_)
RemoveDotDot(s) ==
    IF Len(s) < 2 THEN s
    ELSE IF s[1] = "." /\ s[2] = "." THEN RemoveDotDot(SubSeq(s, 3, Len(s)))
    ELSE <<s[1]>> \o RemoveDotDot(Tail(s))

\* s.replace('\\', '/')
BackslashToSlash(s) == [i \in 1..Len(s) |-> IF s[i] = "\\" THEN "/" ELSE s[i]]

\* s.strip('/')
RECURSIVE LStripSlash(_)
LStripSlash(s) == IF s # <<>> /\ s[1] = "/" THEN LStripSlash(Tail(s)) ELSE s

RECURSIVE RStripSlash(_)
RStripSlash(s) ==
    IF s # <<>> /\ s[Len(s)] = "/" THEN RStripSlash(SubSeq(s, 1, Len(s) - 1)) ELSE s

StripSlash(s) == RStripSlash(LStripSlash(s))

\* s.split(sep): the sequence of pieces, empty pieces kept
RECURSIVE SplitAcc(_, _, _)
SplitAcc(s, sep, cur) ==
    IF s = <<>> THEN <<cur>>
    ELSE IF s[1] = sep THEN <<cur>> \o SplitAcc(Tail(s), sep, <<>>)
    ELSE SplitAcc(Tail(s), sep, Append(cur, s[1]))

Split(s, sep) == SplitAcc(s, sep, <<>>)

\* sep.join(parts)
RECURSIVE Join(_, _)
Join(parts, sep) ==
    IF parts = <<>> THEN <<>>
    ELSE IF Len(parts) = 1 THEN parts[1]
    ELSE parts[1] \o <<sep>> \o Join(Tail(parts), sep)

\* [p for p in parts if keep(p)]
RECURSIVE FilterParts(_)
FilterParts(parts) ==
    IF parts = <<>> THEN <<>>
    ELSE IF parts[1] # <<>> /\ parts[1] # <<".">>
         THEN <<parts[1]>> \o FilterParts(Tail(parts))
         ELSE FilterParts(Tail(parts))

Last(s) == s[Len(s)]

\* s.strip(): leading and trailing blanks removed
RECURSIVE LStrip(_)
LStrip(s) == IF s # <<>> /\ s[1] = " " THEN LStrip(Tail(s)) ELSE s

RECURSIVE RStrip(_)
RStrip(s) == IF s # <<>> /\ s[Len(s)] = " " THEN RStrip(SubSeq(s, 1, Len(s) - 1)) ELSE s

Strip(s) == RStrip(LStrip(s))


(***************************************************************************)
(* app/utils.py and app/config.py: extensions and formats.                 *)
(***************************************************************************)

\* settings.SUPPORTED_FORMATS["archives"]
ArchiveExtensions ==
    { <<"z","i","p">>, <<"r","a","r">>, <<"7","z">>, <<"t","a","r">>,
      <<"g","z">>, <<"b","z","2">>, <<"x","z">>, <<"t","g","z">>,
      <<"t","b","z","2">>, <<"t","x","z">>,
      <<"t","a","r",".","g","z">>, <<"t","a","r",".","b","z","2">>,
      <<"t","a","r",".","x","z">> }

\* The other groups of settings.SUPPORTED_FORMATS, abridged to the
\* extensions that names over the model's alphabet can carry.
OtherExtensions ==
    { <<"t","x","t">>, <<"t">>, <<"r">>, <<"r","b">>, <<"t","s">>,
      <<"r","s">>, <<"s","h">>, <<"p","y">>, <<"h","t","m">>, <<"i","n","i">> }

\* get_file_extension(filename); None is modelled as <<"?none">>
NoExtension == <<"?none">>

GetFileExtension(filename) ==
    IF filename = NoExtension \/ filename = <<>> \/ ~HasChar(filename, ".") THEN NoExtension
    ELSE LET low == Lower(filename) IN
         IF EndsWith(low, <<".","t","a","r",".","g","z">>) \/ EndsWith(low, <<".","t","g","z">>)
            THEN <<"t","a","r",".","g","z">>
         ELSE IF EndsWith(low, <<".","t","a","r",".","b","z","2">>)
                 \/ EndsWith(low, <<".","t","b","z","2">>)
            THEN <<"t","a","r",".","b","z","2">>
         ELSE IF EndsWith(low, <<".","t","a","r",".","x","z">>) \/ EndsWith(low, <<".","t","x","z">>)
            THEN <<"t","a","r",".","x","z">>
         ELSE Lower(Last(Split(filename, ".")))

\* `if not extension`: None and the empty string are both falsy
Falsy(ext) == ext = NoExtension \/ ext = <<>>

\* is_archive_format(filename, settings.SUPPORTED_FORMATS)
IsArchiveFormat(filename) ==
    LET ext == GetFileExtension(filename) IN
    ~Falsy(ext) /\ ext \in ArchiveExtensions

\* a dispatch that takes every name for a supported format
IsSupportedFormatAlways(filename) == TRUE

\* is_supported_format(filename, settings.SUPPORTED_FORMATS)
IsSupportedFormat(filename) ==
    LET ext == GetFileExtension(filename) IN
    ~Falsy(ext) /\ ext \in (ArchiveExtensions \cup OtherExtensions)

(***************************************************************************)
(* TextExtractor helpers for archive members.                              *)
(***************************************************************************)

\* _sanitize_archive_filename(filename)
SanitizeArchiveFilename(filename) ==
    IF filename = <<>> THEN <<>>
    ELSE LET stripped == StripSlash(BackslashToSlash(RemoveDotDot(filename)))
             noroot   == IF StartsWith(stripped, <<"/">>) THEN Tail(stripped) ELSE stripped
             parts    == FilterParts(Split(noroot, "/"))
         IN  IF parts = <<>> THEN <<>> ELSE Join(parts, "/")

\* the entries of system_files in _is_system_file, as written in the source
SystemFiles ==
    { <<".","D","S","_","S","t","o","r","e">>, <<"T","h","u","m","b","s",".","d","b">>,
      <<".","g","i","t","/">>, <<".","s","v","n","/">>, <<".","h","g","/">>,
      <<"_","_","M","A","C","O","S","X","/">>, <<".","l","o","c","a","l","i","z","e","d">>,
      <<"d","e","s","k","t","o","p",".","i","n","i">>, <<"f","o","l","d","e","r",".","i","n","i">> }

\* _is_system_file(filename): each entry is looked for in the lower-cased name
IsSystemFile(filename) ==
    LET low == Lower(filename) IN \E sf \in SystemFiles : Contains(low, sf)

\* Path(p).name: the last path segment
BaseName(p) == Last(Split(p, "/"))


(***************************************************************************)
(* Policy configuration (app/config.py defaults) and the model's bounds.   *)
(***************************************************************************)

MAX_ARCHIVE_SIZE == 20971520

MAX_EXTRACTED_SIZE == 104857600

MAX_ARCHIVE_NESTING == 3

\* at most this many members in one container
MaxMembers == 2

\* at most this many members in the whole tree of nested containers
MaxTreeMembers == 3

(***************************************************************************)
(* The inputs: containers and their members.  A member is                  *)
(*   name  the container-supplied path (info.filename / member.name),      *)
(*   size  its declared uncompressed size, which is also the number of     *)
(*         bytes read back from it,                                        *)
(*   isdir a directory entry,                                              *)
(*   data  "ok", or "corrupt": the member's bytes cannot be parsed (for a  *)
(*         member that is itself a container: it cannot be opened), or     *)
(*         "unreadable": reading the member out of the container fails.    *)
(***************************************************************************)

Member(n, sz, d, dt) == [name |-> n, size |-> sz, isdir |-> d, data |-> dt]

MemberChoices ==
    { Member(<<"a",".","t","x","t">>, 1000, FALSE, "ok"),
      Member(<<"a",".","t","x","t">>, 1000, FALSE, "corrupt"),
      Member(<<"c",".","t","x","t">>, 1000, FALSE, "unreadable"),
      Member(<<".",".","/","a",".","t","x","t">>, 1000, FALSE, "ok"),
      Member(<<".",".",".",".">>, 1000, FALSE, "ok"),
      Member(<<"b">>, 1000, FALSE, "ok"),
      Member(<<"d","/">>, 0, TRUE, "ok"),
      Member(<<".","h","g","/","a",".","t","x","t">>, 1000, FALSE, "ok"),
      Member(<<"b",".","t","x","t">>, 62914560, FALSE, "ok"),
      Member(<<"h",".","t","x","t">>, 1000000000, FALSE, "ok"),
      Member(<<"n",".","z","i","p">>, 1000, FALSE, "ok"),
      Member(<<"n",".","z","i","p">>, 1000, FALSE, "corrupt"),
      Member(<<"m",".","7","z">>, 1000, FALSE, "ok"),
      Member(<<"f",".","z","i","p">>, 31457280, FALSE, "ok") }

\* the member lists a container may hold when n members are still allowed
MemberLists(n) ==
    UNION { [1..k -> MemberChoices] : k \in 0..(IF n < MaxMembers THEN n ELSE MaxMembers) }

\* the uploads: a container of each supported type, within and over the size limit
TopNames ==
    { <<"o",".","z","i","p">>, <<"o",".","t","a","r">>,
      <<"o",".","r","a","r">>, <<"o",".","7","z">> }

TopSizes == { 1000, 31457280 }


(***************************************************************************)
(* State of one upload being unpacked.                                     *)
(*   req     the upload: [name, size, data]                                *)
(*   status  "ready", "running", then "ok" (extract_text returned) or      *)
(*           "error" (extract_text raised)                                 *)
(*   stack   the active _extract_from_archive calls, outermost first; a    *)
(*           frame is one call with its temporary directory                *)
(*   out     the units extract_text returned                               *)
(*   writes  every member written to disk so far                           *)
(*   ledger  the declared sizes accepted for extraction so far, over the   *)
(*           whole tree                                                    *)
(*   opened  every container unpacked so far                               *)
(*   policy  the policy violations raised so far, at any level             *)
(*   calls   the number of _extract_from_archive calls so far; a call's    *)
(*           number identifies it (fid)                                    *)
(*   budget  how many more members the input may still hold                *)
(*   failed  the calls that raised for another reason than a policy        *)
(*           violation, with the reason                                    *)
(***************************************************************************)
VARIABLES req, status, stack, out, writes, ledger, opened, policy, calls, budget,
          failed

avars == <<req, status, stack, out, writes, ledger, opened, policy, calls, budget,
           failed>>

(***************************************************************************)
(* State of one URL request.                                               *)
(*   url      the URL asked for, opts the request's fetch options          *)
(*   ustage   "start", "validated", "probed", "images", "download", "done" *)
(*   usafe    what _is_safe_url(url) returned: "unknown", "safe", "unsafe" *)
(*   nchecks  how many times _is_safe_url(url) has been called             *)
(*   conns    the URLs connected to by the probe, the page fetch, the      *)
(*            browser navigation and the file download                     *)
(*   ctype    the content type the probe returned, final the final URL     *)
(*   imgs     the <img> tags of the fetched page, imgidx the next one      *)
(*   imgreq   the image URLs requested, imgskip the image URLs refused     *)
(*   uunits   the units built so far                                       *)
(*   ures     "none", then "ok", "error" or "dispatched" (the downloaded   *)
(*            payload handed to extract_text)                              *)
(*   ulog     the stages extract_from_url went through, in order, each     *)
(*            with the content type and URL it worked with                 *)
(* and of the download of _download_and_extract_file:                      *)
(*   dldeclared  the Content-Length header of the response, if any         *)
(*   dlbody      the number of bytes the server sends as the body          *)
(*   dlread      downloaded_size: the body bytes taken from the response   *)
(*   dlwritten   the bytes written to the temporary file                   *)
(*   dltemp      the temporary file: "none", "open", "removed"             *)
(*   dlpayload   the size of the content handed to extract_text, if any    *)
(***************************************************************************)
VARIABLES url, opts, ustage, usafe, nchecks, conns, ctype, final, imgs, imgidx,
          imgreq, imgskip, uunits, ures, ulog

VARIABLES dldeclared, dlbody, dlread, dlwritten, dltemp, dlpayload

dvars == <<dldeclared, dlbody, dlread, dlwritten, dltemp, dlpayload>>

uvars == <<url, opts, ustage, usafe, nchecks, conns, ctype, final, imgs, imgidx,
           imgreq, imgskip, uunits, ures, ulog, dvars>>

(***************************************************************************)
(* State of one call of _sanitize_archive_filename.                        *)
(*   sname   the container-supplied name handed to it                      *)
(*   sres    what it returned                                              *)
(*   sstage  "idle", "ready", then "done"                                  *)
(***************************************************************************)
VARIABLES sname, sres, sstage

svars == <<sname, sres, sstage>>

(***************************************************************************)
(* State of one call of run_subprocess_with_limits.                        *)
(*   pcfg     [enabled, timeout, memory_limit, check]: the global flag     *)
(*            ENABLE_RESOURCE_LIMITS, the arguments, and the `check`       *)
(*            keyword a caller may pass through **kwargs                   *)
(*   pstage   "idle", "start", "forked" (child created, command not yet    *)
(*            exec'd), "running", "exited" (child gone, subprocess.run     *)
(*            about to return), "done"                                     *)
(*   plimits  the rlimits in force in the child; 0: not set by the call    *)
(*   pchild   "none", "alive", "exited", "killed"                          *)
(*   prc      the child's return code as Popen reports it                  *)
(*   pcause   why the child ended: "none", "normal", "memory"              *)
(*   pclock   seconds of wall-clock time since the command started         *)
(*   pout     "none", then "completed" (CompletedProcess returned),        *)
(*            "timeout" (TimeoutExpired), "called_process_error",          *)
(*            "memory_error" (MemoryError) or "os_error"                   *)
(***************************************************************************)
VARIABLES pcfg, pstage, plimits, pchild, prc, pcause, pclock, pout

pvars == <<pcfg, pstage, plimits, pchild, prc, pcause, pclock, pout>>

(***************************************************************************)
(* State of one call of _safe_scroll_for_lazy_loading.                     *)
(*   lmax       max_scroll_attempts                                        *)
(*   linit      initial_height                                             *)
(*   lattempts  scroll_attempts                                            *)
(*   llast      last_height                                                *)
(*   lstable    stable_count                                               *)
(*   lhist      the heights measured, one per iteration                    *)
(*   lscrolls   how many times the page has been scrolled to its end       *)
(*   lstage     "idle", "loop", then "done"                                *)
(*   lexit      how the loop ended: "none", "stable", "runaway", "cap",    *)
(*              "exception"                                                *)
(***************************************************************************)
VARIABLES lmax, linit, lattempts, llast, lstable, lhist, lscrolls, lstage, lexit

lvars == <<lmax, linit, lattempts, llast, lstable, lhist, lscrolls, lstage, lexit>>

(***************************************************************************)
(* State of the calls of get_file_extension and _is_system_file made for   *)
(* one name.                                                               *)
(*   nname    the name; None is modelled as <<"?none">>                    *)
(*   ncalled  which of the two functions were called: "ext", "sys"         *)
(*   nres     what get_file_extension returned                             *)
(*   nsys     what _is_system_file returned                                *)
(***************************************************************************)
VARIABLES nname, ncalled, nres, nsys

nvars == <<nname, ncalled, nres, nsys>>

(***************************************************************************)
(* State of one request to /v1/extract/file or /v1/extract/base64.         *)
(*   hin      the request: endpoint, filename, size of the content (or     *)
(*            NoSize when file.size is None), whether the base64 text      *)
(*            decodes, whether the content's MIME type fits the extension, *)
(*            and how text_extractor.extract_text ends when it is run      *)
(*   hstage   "idle", "start", "decoded", "sized", "nonempty",             *)
(*            "validated", "extracting", "done"                            *)
(*   hchecks  the checks made so far, in order                             *)
(*   hcalled  text_extractor.extract_text was invoked                      *)
(*   hresp    the response: [code, body]                                   *)
(*   hworker  the thread-pool thread running extract_text: "none",         *)
(*            "running", "finished"                                        *)
(*   hproc    the external process the extraction started: "none",         *)
(*            "alive", "exited", "killed"                                  *)
(*   htmp     the temporary directory of the extraction: "none",           *)
(*            "exists", "removed"                                          *)
(***************************************************************************)
VARIABLES hin, hstage, hchecks, hcalled, hresp, hworker, hproc, htmp

hvars == <<hin, hstage, hchecks, hcalled, hresp, hworker, hproc, htmp>>

(***************************************************************************)
(* State of two archive requests served at the same time by the one        *)
(* TextExtractor of app/main.py, each in a thread of the pool.             *)
(*   kreq    request -> the members of its archive                         *)
(*   kpc     request -> "idle", "start", "scan", "members", "done"         *)
(*   kdir    request -> the name of its temporary directory, 0 if none     *)
(*   ktotal  request -> total_size, the ledger of its call                 *)
(*   kidx    request -> the next member of its extraction loop             *)
(*   kres    request -> "none", "ok", "error"                              *)
(*   kfs     the files under the system's temporary directory, each        *)
(*           [dir, path, owner]: the request that wrote it last            *)
(***************************************************************************)
VARIABLES kreq, kpc, kdir, ktotal, kidx, kres, kfs

kvars == <<kreq, kpc, kdir, ktotal, kidx, kres, kfs>>

\* the state of the parts described after the scroll loop
xvars == <<nvars, hvars, kvars>>

\* the state outside the archive unpacker and the remote fetcher
ovars == <<svars, pvars, lvars, xvars>>

\* the branch of _extract_from_archive taken for an extension
ContainerType(ext) ==
    IF ext = <<"z","i","p">> THEN "zip"
    ELSE IF ext \in { <<"t","a","r">>, <<"g","z">>, <<"b","z","2">>, <<"x","z">>,
                      <<"t","a","r",".","g","z">>, <<"t","a","r",".","b","z","2">>,
                      <<"t","a","r",".","x","z">>, <<"t","g","z">>,
                      <<"t","b","z","2">>, <<"t","x","z">> } THEN "tar"
    ELSE IF ext = <<"r","a","r">> THEN "rar"
    ELSE IF ext = <<"7","z">> THEN "7z"
    ELSE "unsupported"

\* a guard that lets one level too many through
NestingExceededOffByOne(nesting_level) == nesting_level > MAX_ARCHIVE_NESTING

\* the two guards at the head of _extract_from_archive
NestingExceeded(nesting_level) == nesting_level >= MAX_ARCHIVE_NESTING

ArchiveTooLarge(size) == size > MAX_ARCHIVE_SIZE

\* the nesting level _process_extracted_file passes to the nested call
NestedLevel(nesting_level) == nesting_level + 1

\* a temporary directory every call would share
TempDirShared(fid) == 1

\* tempfile.TemporaryDirectory(): a fresh directory for the call
TempDir(fid) == fid

\* a call that passed the guards: its temporary directory holds the
\* container and an empty extract directory; `listed` is the container's
\* native enumeration of its members
NewFrame(fid, name, level, data, members) ==
    [ fid     |-> fid,
      dir     |-> TempDir(fid),
      listed  |-> members,
      name    |-> name,
      level   |-> level,
      ctype   |-> ContainerType(GetFileExtension(name)),
      data    |-> data,
      members |-> members,
      pc      |-> "scan",
      idx     |-> 1,
      total   |-> 0,
      units   |-> <<>> ]

Top == stack[Len(stack)]

SetTop(f) == [stack EXCEPT ![Len(stack)] = f]

\* the running sums of the pre-scan loop: total_size after each member
RECURSIVE DeclaredTotal(_)
DeclaredTotal(members) ==
    IF members = <<>> THEN 0
    ELSE DeclaredTotal(SubSeq(members, 1, Len(members) - 1))
         + (IF Last(members).isdir THEN 0 ELSE Last(members).size)

\* a pre-scan that tests each declared size alone instead of the running sum
PrescanRejectsPerMember(members) ==
    \E k \in 1..Len(members) :
        ~members[k].isdir /\ members[k].size > MAX_EXTRACTED_SIZE

\* the pre-scan raises as soon as a running sum is over the limit
PrescanRejects(members) ==
    \E k \in 1..Len(members) :
        ~members[k].isdir /\ DeclaredTotal(SubSeq(members, 1, k)) > MAX_EXTRACTED_SIZE

\* where extract_dir / rel lands: TRUE when outside extract_dir
RECURSIVE Climbs(_, _)
Climbs(parts, depth) ==
    IF parts = <<>> THEN FALSE
    ELSE IF parts[1] = <<".", ".">> THEN (depth = 0 \/ Climbs(Tail(parts), depth - 1))
    ELSE IF parts[1] = <<>> \/ parts[1] = <<".">> THEN Climbs(Tail(parts), depth)
    ELSE Climbs(Tail(parts), depth + 1)

Escapes(rel) == StartsWith(rel, <<"/">>) \/ Climbs(Split(rel, "/"), 0)

\* The call on top of the stack returns `units` to its caller, or raises.
\* The top-level call ends extract_text.  A nested call returns into
\* _process_extracted_file, whose `except Exception` turns a raise into
\* None, and the parent's member loop goes on with its next member.
Leave(raised, units) ==
    IF Len(stack) = 1
    THEN /\ stack' = <<>>
         /\ status' = (IF raised THEN "error" ELSE "ok")
         /\ out' = (IF raised THEN <<>> ELSE units)
    ELSE LET parent == stack[Len(stack) - 1]
             got    == IF raised THEN <<>> ELSE units
         IN  /\ stack' = [ SubSeq(stack, 1, Len(stack) - 1) EXCEPT
                             ![Len(stack) - 1] =
                                [parent EXCEPT !.idx = parent.idx + 1,
                                               !.units = parent.units \o got] ]
             /\ UNCHANGED <<status, out>>

\* the unit _process_extracted_file builds for a parsed member
Unit(fid, archive_name, filename, basename) ==
    [ fid      |-> fid,
      filename |-> basename,
      path     |-> archive_name \o <<"/">> \o filename ]

\* extract_text(file_content, filename): an archive goes to
\* _extract_from_archive at nesting level 0, anything else to its parser
ExtractText ==
    /\ UNCHANGED <<uvars, ovars>>
    /\ status = "ready"
    /\ UNCHANGED <<req, writes, ledger, failed>>
    /\ IF IsArchiveFormat(req.name)
       THEN /\ calls' = calls + 1
            /\ IF NestingExceeded(0) \/ ArchiveTooLarge(req.size)
               THEN /\ status' = "error"
                    /\ policy' = policy \cup
                          {[fid |-> calls + 1,
                            kind |-> IF NestingExceeded(0) THEN "nesting" ELSE "size",
                            pfid |-> 0, pname |-> <<>>]}
                    /\ UNCHANGED <<stack, out, opened, budget>>
               ELSE \E ms \in MemberLists(budget) :
                    /\ (req.data = "corrupt" => ms = <<>>)
                    /\ status' = "running"
                    /\ stack' = <<NewFrame(calls + 1, req.name, 0, req.data, ms)>>
                    /\ opened' = opened \cup
                          {[fid |-> calls + 1, level |-> 0, size |-> req.size, plevel |-> -1,
                            pfid |-> 0, pname |-> <<>>]}
                    /\ budget' = budget - Len(ms)
                    /\ UNCHANGED <<out, policy>>
       ELSE /\ UNCHANGED <<stack, opened, policy, calls, budget>>
            /\ IF ~IsSupportedFormat(req.name) \/ req.data = "corrupt"
               THEN status' = "error" /\ out' = <<>>
               ELSE /\ status' = "ok"
                    /\ out' = <<[fid |-> 0, filename |-> req.name, path |-> req.name]>>

\* the container is opened and the pre-scan loop sums the declared sizes
Prescan ==
    /\ UNCHANGED <<uvars, ovars>>
    /\ status = "running" /\ Top.pc = "scan"
    /\ UNCHANGED <<req, writes, opened, calls, budget>>
    /\ IF Top.data = "corrupt" \/ Top.ctype = "unsupported"
       THEN /\ Leave(TRUE, <<>>)
            /\ failed' = failed \cup {[fid |-> Top.fid, cause |-> "container"]}
            /\ UNCHANGED <<ledger, policy>>
       ELSE IF PrescanRejects(Top.members)
       THEN /\ Leave(TRUE, <<>>)
            /\ policy' = policy \cup
                  {[fid |-> Top.fid, kind |-> "bomb",
                    pfid  |-> (CHOOSE o \in opened : o.fid = Top.fid).pfid,
                    pname |-> (CHOOSE o \in opened : o.fid = Top.fid).pname]}
            /\ UNCHANGED <<ledger, failed>>
       ELSE /\ stack' = SetTop([Top EXCEPT
                           !.pc = IF Top.ctype = "7z" THEN "extractall" ELSE "members",
                           !.total = DeclaredTotal(Top.members)])
            /\ ledger' = ledger + DeclaredTotal(Top.members)
            /\ UNCHANGED <<status, out, policy, failed>>

\* safe_path = extract_dir / safe_filename: where the zip, tar and rar loops
\* write a member, relative to the call's extract directory
SafePath(name) == SanitizeArchiveFilename(name)

\* sz_ref.extractall(extract_dir): where py7zr is asked to write a member
ExtractAllPath(name) == name

\* a member written to disk by the call f
WriteRec(f, m, at) ==
    [ fid      |-> f.fid,
      dir      |-> f.dir,
      level    |-> f.level,
      ctype    |-> f.ctype,
      raw      |-> m.name,
      at       |-> at,
      declared |-> DeclaredTotal(f.members) ]

Advance(f) == [f EXCEPT !.idx = f.idx + 1]

\* _process_extracted_file(content, filename, basename, archive_name, nesting_level)
\* for the member m of the call on top of the stack
ProcessExtractedFile(m, filename) ==
    LET f        == Top
        basename == BaseName(filename)
    IN  IF IsArchiveFormat(basename)
        THEN /\ calls' = calls + 1
             /\ IF NestingExceeded(NestedLevel(f.level)) \/ ArchiveTooLarge(m.size)
                THEN /\ policy' = policy \cup
                           {[fid |-> calls + 1,
                             kind |-> IF NestingExceeded(NestedLevel(f.level))
                                      THEN "nesting" ELSE "size",
                             pfid |-> f.fid, pname |-> m.name]}
                     /\ stack' = SetTop(Advance(f))
                     /\ UNCHANGED <<opened, budget>>
                ELSE \E ms \in MemberLists(budget) :
                     /\ (m.data = "corrupt" => ms = <<>>)
                     /\ stack' = Append(stack, NewFrame(calls + 1, basename,
                                                        NestedLevel(f.level), m.data, ms))
                     /\ opened' = opened \cup
                           {[fid |-> calls + 1, level |-> NestedLevel(f.level),
                             size |-> m.size, plevel |-> f.level,
                             pfid |-> f.fid, pname |-> m.name]}
                     /\ budget' = budget - Len(ms)
                     /\ UNCHANGED policy
        ELSE /\ UNCHANGED <<calls, opened, budget, policy>>
             /\ IF IsSupportedFormat(basename) /\ m.data = "ok"
                THEN stack' = SetTop([Advance(f) EXCEPT
                                 !.units = Append(f.units,
                                                  Unit(f.fid, f.name, filename, basename))])
                ELSE stack' = SetTop(Advance(f))

\* one iteration of the extraction loop of _extract_zip_files,
\* _extract_tar_files and _extract_rar_files
ExtractMember ==
    /\ UNCHANGED <<uvars, ovars>>
    /\ status = "running" /\ Top.pc = "members" /\ Top.idx <= Len(Top.members)
    /\ UNCHANGED <<req, status, out, ledger, failed>>
    /\ LET m    == Top.members[Top.idx]
           safe == SanitizeArchiveFilename(m.name)
       IN  IF m.isdir \/ safe = <<>> \/ IsSystemFile(safe)
           THEN /\ stack' = SetTop(Advance(Top))
                /\ UNCHANGED <<writes, opened, policy, calls, budget>>
           ELSE IF m.data = "unreadable"
           THEN \* the copy out of the container raises inside the inner try:
                \* the target file has been created, the member is skipped
                /\ writes' = writes \cup {WriteRec(Top, m, SafePath(m.name))}
                /\ stack' = SetTop(Advance(Top))
                /\ UNCHANGED <<opened, policy, calls, budget>>
           ELSE /\ writes' = writes \cup {WriteRec(Top, m, SafePath(m.name))}
                /\ ProcessExtractedFile(m, safe)

\* the directory part of a relative path
DirOf(p) == LET parts == Split(p, "/") IN SubSeq(parts, 1, Len(parts) - 1)

IsPrefix(a, b) == Len(a) <= Len(b) /\ SubSeq(b, 1, Len(a)) = a

\* os.walk(extract_dir): the orders in which the files of `paths` can come:
\* a directory's files together, a directory before the directories below it
WalkOrders(paths) ==
    { o \in [1..Cardinality(paths) -> paths] :
        /\ \A i, j \in 1..Cardinality(paths) : i # j => o[i] # o[j]
        /\ \A i, j \in 1..Cardinality(paths) :
              (i < j /\ DirOf(o[i]) # DirOf(o[j])) =>
                  /\ ~IsPrefix(DirOf(o[j]), DirOf(o[i]))
                  /\ \A k \in 1..Cardinality(paths) : k > j => DirOf(o[k]) # DirOf(o[i]) }

\* the file found at `path` after extractall: the last member written there
FileAt(members, path) ==
    LET k == CHOOSE i \in 1..Len(members) :
                 /\ ~members[i].isdir /\ ExtractAllPath(members[i].name) = path
                 /\ \A j \in (i+1)..Len(members) :
                        members[j].isdir \/ ExtractAllPath(members[j].name) # path
    IN  Member(path, members[k].size, FALSE, members[k].data)

\* _extract_7z_files after the pre-scan: extractall writes every member under
\* its container-supplied name, then os.walk lists what is in extract_dir.
\* For a name that leaves extract_dir the library either refuses the archive
\* or writes where the name points, depending on its version.  A member
\* that cannot be read makes extractall raise, which ends the call: no
\* member of the container is processed.
ExtractAll7z ==
    /\ UNCHANGED <<uvars, ovars>>
    /\ status = "running" /\ Top.pc = "extractall"
    /\ UNCHANGED <<req, ledger, opened, calls, budget>>
    /\ LET f     == Top
           files == { i \in 1..Len(f.members) : ~f.members[i].isdir }
           bad   == { i \in files : Escapes(ExtractAllPath(f.members[i].name)) }
           paths == { ExtractAllPath(f.members[i].name) : i \in files \ bad }
           unreadable == { i \in files : f.members[i].data = "unreadable" }
       IN  \/ /\ bad # {}
              /\ Leave(TRUE, <<>>)
              /\ failed' = failed \cup {[fid |-> f.fid, cause |-> "path"]}
              /\ UNCHANGED <<writes, policy>>
           \/ /\ unreadable # {}
              /\ Leave(TRUE, <<>>)
              /\ failed' = failed \cup {[fid |-> f.fid, cause |-> "member"]}
              /\ writes' = writes \cup
                    { WriteRec(f, f.members[i], ExtractAllPath(f.members[i].name)) :
                        i \in { j \in files : \A u \in unreadable : j < u } }
              /\ UNCHANGED policy
           \/ /\ unreadable = {}
              /\ failed' = failed
              /\ writes' = writes \cup
                    { WriteRec(f, f.members[i], ExtractAllPath(f.members[i].name)) : i \in files }
              /\ \E o \in WalkOrders(paths) :
                    stack' = SetTop([f EXCEPT
                                 !.pc = "walk",
                                 !.members = [i \in 1..Len(o) |-> FileAt(f.members, o[i])]])
              /\ UNCHANGED <<status, out, policy>>

\* one iteration of the os.walk loop of _extract_7z_files
WalkMember ==
    /\ UNCHANGED <<uvars, ovars>>
    /\ status = "running" /\ Top.pc = "walk" /\ Top.idx <= Len(Top.members)
    /\ UNCHANGED <<req, status, out, ledger, writes, failed>>
    /\ LET m    == Top.members[Top.idx]
           safe == SanitizeArchiveFilename(m.name)
       IN  IF safe = <<>> \/ IsSystemFile(safe)
           THEN /\ stack' = SetTop(Advance(Top))
                /\ UNCHANGED <<opened, policy, calls, budget>>
           ELSE ProcessExtractedFile(m, safe)

\* the member loop is over: `return extracted_files`
Return ==
    /\ UNCHANGED <<uvars, ovars>>
    /\ status = "running" /\ Top.pc \in {"members", "walk"} /\ Top.idx > Len(Top.members)
    /\ Leave(FALSE, Top.units)
    /\ UNCHANGED <<req, writes, ledger, opened, policy, calls, budget, failed>>

Uploads ==
    { [name |-> n, size |-> sz, data |-> d] :
        n \in TopNames \cup { <<"a",".","t","x","t">>, <<"b">> },
        sz \in TopSizes, d \in {"ok", "corrupt"} }

(***************************************************************************)
(* The remote fetcher: addresses, name resolution and the blocklists.      *)
(***************************************************************************)

\* what socket.getaddrinfo hands back for one address: a string that
\* ipaddress.ip_address parses to an IPv4 address (v = 4, octets o) or to an
\* IPv6 address (v = 6, of kind k), or that it rejects (v = 0)
Addr4(a, b, c, d) == [v |-> 4, o |-> <<a, b, c, d>>, k |-> "v4"]

Addr6(kind) == [v |-> 6, o |-> <<0, 0, 0, 0>>, k |-> kind]

BadAddr == [v |-> 0, o |-> <<0, 0, 0, 0>>, k |-> "unparsable"]

\* ipaddress.ip_address(ip_str) raises ValueError
ParseFails(a) == a.v = 0

\* ip_obj.is_loopback
IsLoopback(a) == (a.v = 4 /\ a.o[1] = 127) \/ (a.v = 6 /\ a.k = "loopback")

\* ip_obj.is_link_local
IsLinkLocal(a) == (a.v = 4 /\ a.o[1] = 169 /\ a.o[2] = 254) \/ (a.v = 6 /\ a.k = "linklocal")

\* ip_obj.is_private
IsPrivate(a) ==
    \/ /\ a.v = 4
       /\ \/ a.o[1] \in {0, 10, 127}
          \/ a.o[1] = 169 /\ a.o[2] = 254
          \/ a.o[1] = 172 /\ a.o[2] \in 16..31
          \/ a.o[1] = 192 /\ a.o[2] = 168
          \/ a.o[1] = 198 /\ a.o[2] \in {18, 19}
          \/ a.o[1] >= 240
    \/ a.v = 6 /\ a.k \in {"loopback", "linklocal", "ula"}

\* str(ip_obj) == "169.254.169.254"
IsMetadata(a) == a.v = 4 /\ a.o = <<169, 254, 169, 254>>

\* the 172.16-31.0.1 test on the octets of an IPv4 address
IsBridgeGateway(a) ==
    a.v = 4 /\ a.o[1] = 172 /\ 16 <= a.o[2] /\ a.o[2] <= 31 /\ a.o[3] = 0 /\ a.o[4] = 1

\* settings.BLOCKED_IP_RANGES.split(','): an entry is a network (whole
\* octets of prefix), a string ip_network rejects, or blank
BLOCKED_IP_RANGES ==
    << [kind |-> "net", o |-> <<8, 8, 4, 0>>, octets |-> 3],
       [kind |-> "invalid", o |-> <<0, 0, 0, 0>>, octets |-> 0],
       [kind |-> "blank", o |-> <<0, 0, 0, 0>>, octets |-> 0] >>

\* ip_obj in ipaddress.ip_network(range_str, strict=False)
InNetwork(a, n) ==
    n.kind = "net" /\ a.v = 4 /\ \A i \in 1..n.octets : a.o[i] = n.o[i]

InBlockedRange(a) == \E i \in 1..Len(BLOCKED_IP_RANGES) : InNetwork(a, BLOCKED_IP_RANGES[i])

\* settings.BLOCKED_HOSTNAMES: "int, Blk.IO ,"
BLOCKED_HOSTNAMES ==
    <<"i","n","t",","," ","B","l","k",".","I","O"," ",",">>

\* the loop over blocked_hostnames in _is_safe_url
HostnameBlocked(hostname) ==
    LET entries == Split(BLOCKED_HOSTNAMES, ",") IN
    \E i \in 1..Len(entries) :
        LET blocked == Lower(Strip(entries[i])) IN
        blocked # <<>> /\ Lower(hostname) = blocked

\* socket.getaddrinfo(hostname, None, AF_UNSPEC, SOCK_STREAM) in the model's
\* network: every address of both families, or gaierror (ok = FALSE)
GetAddrInfo(hostname) ==
    CASE hostname = <<"p",".","i","o">> ->
            [ok |-> TRUE, ips |-> <<Addr4(8, 8, 8, 8), Addr6("global")>>]
      [] hostname \in { <<"i","n","t">>, <<"b","l","k",".","i","o">> } ->
            [ok |-> TRUE, ips |-> <<Addr4(8, 8, 8, 8)>>]
      [] hostname = <<"l","o",".","i","o">> ->
            [ok |-> TRUE, ips |-> <<Addr4(127, 0, 0, 1)>>]
      [] hostname = <<"m","x",".","i","o">> ->
            [ok |-> TRUE, ips |-> <<Addr4(8, 8, 8, 8), Addr4(10, 0, 0, 5)>>]
      [] hostname = <<"m","d",".","i","o">> ->
            [ok |-> TRUE, ips |-> <<Addr4(169, 254, 169, 254)>>]
      [] hostname = <<"b","r",".","i","o">> ->
            [ok |-> TRUE, ips |-> <<Addr4(172, 17, 0, 1)>>]
      [] hostname = <<"c","d",".","i","o">> ->
            [ok |-> TRUE, ips |-> <<Addr4(8, 8, 4, 4)>>]
      [] hostname = <<"l","6",".","i","o">> ->
            [ok |-> TRUE, ips |-> <<Addr4(8, 8, 8, 8), Addr6("linklocal")>>]
      [] hostname = <<"o","d",".","i","o">> ->
            [ok |-> TRUE, ips |-> <<BadAddr, Addr4(8, 8, 8, 8)>>]
      [] OTHER -> [ok |-> FALSE, ips |-> <<>>]

\* a URL: urlparse(url) gives the scheme and the hostname lower-cased
Url(scheme, host, path) == [scheme |-> scheme, host |-> host, path |-> path]

ParsedScheme(u) == Lower(u.scheme)

ParsedHostname(u) == Lower(u.host)

HTTP == <<"h","t","t","p">>

HTTPS == <<"h","t","t","p","s">>

\* the checks of _is_safe_url on one resolved address, in the code's order
AddressBlocked(a) ==
    \/ IsLoopback(a) \/ IsPrivate(a) \/ IsLinkLocal(a)
    \/ InBlockedRange(a)
    \/ IsMetadata(a)
    \/ IsBridgeGateway(a)

\* a loop that stops at the first address it accepts
RECURSIVE CheckFirstOnly(_)
CheckFirstOnly(ips) ==
    IF ips = <<>> THEN TRUE
    ELSE IF ParseFails(ips[1]) THEN CheckFirstOnly(Tail(ips))
    ELSE ~AddressBlocked(ips[1])

\* `for ip_str in ips`: an address that does not parse is logged and
\* skipped (`continue`), a blocked one returns False, none blocked: True
RECURSIVE CheckAddresses(_)
CheckAddresses(ips) ==
    IF ips = <<>> THEN TRUE
    ELSE IF ParseFails(ips[1]) THEN CheckAddresses(Tail(ips))
    ELSE IF AddressBlocked(ips[1]) THEN FALSE
    ELSE CheckAddresses(Tail(ips))

\* _is_safe_url(url)
IsSafeUrl(u) ==
    IF ParsedScheme(u) \notin {HTTP, HTTPS} THEN FALSE
    ELSE IF ParsedHostname(u) = <<>> THEN FALSE
    ELSE IF HostnameBlocked(ParsedHostname(u)) THEN FALSE
    ELSE LET r == GetAddrInfo(ParsedHostname(u)) IN
         IF ~r.ok THEN FALSE ELSE CheckAddresses(r.ips)

(***************************************************************************)
(* The remote fetcher: extract_from_url and what it calls.                 *)
(***************************************************************************)

MAX_FILE_SIZE == 20971520

\* the redirects one request may follow (requests follows up to 30)
MaxRedirects == 1

\* the <img src=...> tags looked at on one page (settings.MAX_IMAGES_PER_PAGE)
MaxImages == 1

\* the URL as a string: what get_file_extension is applied to
UrlString(u) == u.scheme \o <<":", "/", "/">> \o u.host \o u.path

PublicHost == <<"p",".","i","o">>

\* the URLs a request may be made for
UrlChoices ==
    { Url(HTTP, h, p) :
        h \in { PublicHost, <<"P",".","I","O">>, <<"i","n","t">>, <<"I","N","T">>, <<"b","l","k",".","i","o">>, <<"l","o",".","i","o">>, <<"m","x",".","i","o">>, <<"m","d",".","i","o">>,
                <<"b","r",".","i","o">>, <<"c","d",".","i","o">>, <<"l","6",".","i","o">>, <<"o","d",".","i","o">>, <<"n","x",".","i","o">>, <<>> },
        p \in { <<>>, <<"/","a",".","p","d","f">> } }
    \cup { Url(sch, PublicHost, <<>>) : sch \in { HTTPS, <<"f","t","p">> } }

\* where a server may redirect a request to
RedirectTargets ==
    { Url(HTTP, PublicHost, <<"/","x",".","h","t","m">>),
      Url(HTTP, <<"l","o",".","i","o">>, <<"/","a",".","p","d","f">>) }

\* the Content-Type headers a server may answer with, lower-cased
ContentTypes ==
    { <<"t","e","x","t","/","h","t","m","l",";"," ","c","h","a","r","s","e","t","=","u","t","f","-","8">>, <<"t","e","x","t","/","p","l","a","i","n">>, <<>>, <<"a","p","p","l","i","c","a","t","i","o","n","/","p","d","f">> }

\* _is_html_content(content_type, url)
IsHtmlContent(content_type, u) ==
    IF Contains(content_type, <<"t","e","x","t","/","h","t","m","l">>) \/ Contains(content_type, <<"a","p","p","l","i","c","a","t","i","o","n","/","x","h","t","m","l">>)
    THEN TRUE
    ELSE IF Contains(content_type, <<"t","e","x","t","/","p","l","a","i","n">>)
    THEN GetFileExtension(Split(UrlString(u), "?")[1]) \in { <<"h","t","m","l">>, <<"h","t","m">> }
    ELSE IF content_type = <<>> \/ Contains(content_type, <<"a","p","p","l","i","c","a","t","i","o","n","/","o","c","t","e","t","-","s","t","r","e","a","m">>)
    THEN LET ext == GetFileExtension(Split(UrlString(u), "?")[1])
         IN  ext \in { <<"h","t","m","l">>, <<"h","t","m">> } \/ ext = NoExtension
    ELSE FALSE

\* the URLs one requests call connects to, in order: the URL asked for, then
\* every redirect it follows (allow_redirects); requests validates none
Chains(u, follow) ==
    { <<u>> } \cup
    IF follow
    THEN UNION { { <<u>> \o c : c \in [1..n -> RedirectTargets] } : n \in 1..MaxRedirects }
    ELSE {}

Hops(chain) == { chain[i] : i \in 1..Len(chain) }

\* the src attributes of the <img> tags of a page
ImageSrcs ==
    { [kind |-> "relative", u |-> Url(<<>>, <<>>, <<"/","i",".","p","n","g">>)],
      [kind |-> "absolute", u |-> Url(HTTP, PublicHost, <<"/","i",".","p","n","g">>)],
      [kind |-> "absolute", u |-> Url(HTTP, <<"l","o",".","i","o">>, <<"/","i",".","p","n","g">>)],
      [kind |-> "data", u |-> Url(<<"d","a","t","a">>, <<>>, <<>>)] }

ImageLists == UNION { [1..n -> ImageSrcs] : n \in 0..MaxImages }

\* urljoin(base_url, img_src)
UrlJoin(base, src) ==
    IF src.kind = "relative" THEN Url(base.scheme, base.host, src.u.path) ELSE src.u

\* a guard that refuses no URL
UrlRejectedNever(u) == FALSE

\* a guard that looks at the scheme only
UrlRejectedBySchemeOnly(u) == ParsedScheme(u) \notin {HTTP, HTTPS}

\* `if not self._is_safe_url(url): raise ValueError(...)` in extract_from_url
UrlRejected(u) == ~IsSafeUrl(u)

\* a guard that lets every image through
ImageRejectedNever(img_url) == FALSE

\* `if not self._is_safe_url(img_url): return None` in _process_single_image
ImageRejected(img_url) == ~IsSafeUrl(img_url)

\* one entry of the stage log
Stage(name, content_type, u) == [stage |-> name, ctype |-> content_type, at |-> u]

\* extract_from_url, the security check at its head
Validate ==
    /\ UNCHANGED <<avars, ovars>>
    /\ ustage = "start"
    /\ nchecks' = nchecks + 1
    /\ IF UrlRejected(url)
       THEN usafe' = "unsafe" /\ ustage' = "done" /\ ures' = "error"
       ELSE usafe' = "safe" /\ ustage' = "validated" /\ ures' = ures
    /\ ulog' = Append(ulog, Stage("validate", <<>>, url))
    /\ UNCHANGED <<url, opts, conns, ctype, final, imgs, imgidx, imgreq, imgskip, uunits>>
    /\ UNCHANGED dvars

\* _determine_content_type(url): a HEAD request and, when it fails, a GET
\* request whose body is not read; both follow redirects
ProbeContentType ==
    /\ UNCHANGED <<avars, ovars>>
    /\ ustage = "validated"
    /\ UNCHANGED <<url, opts, usafe, nchecks, imgs, imgidx, imgreq, imgskip, uunits>>
    /\ UNCHANGED dvars
    /\ \E head \in Chains(url, opts.follow_redirects) :
       \/ \E ct \in ContentTypes :
             /\ conns' = conns \cup Hops(head)
             /\ ctype' = ct /\ final' = Last(head)
             /\ ustage' = "probed" /\ ures' = ures
             /\ ulog' = Append(ulog, Stage("probe", ct, Last(head)))
       \/ \E get \in Chains(url, opts.follow_redirects) :
             /\ conns' = conns \cup Hops(head) \cup Hops(get)
             /\ \/ \E ct \in ContentTypes :
                      /\ ctype' = ct /\ final' = Last(get)
                      /\ ustage' = "probed" /\ ures' = ures
                      /\ ulog' = Append(ulog, Stage("probe", ct, Last(get)))
                \/ /\ ustage' = "done" /\ ures' = "error"
                   /\ ulog' = Append(ulog, Stage("probe_failed", <<>>, url))
                   /\ UNCHANGED <<ctype, final>>

\* _extract_html_page(final_url): the page is loaded by the browser
\* (enable_javascript, falling back to requests when it fails) or by
\* requests; then the text and the <img> tags are taken from the HTML
FetchHtmlPage ==
    /\ UNCHANGED <<avars, ovars>>
    /\ ustage = "probed" /\ IsHtmlContent(ctype, final)
    /\ UNCHANGED <<url, opts, usafe, nchecks, ctype, imgreq, imgskip>>
    /\ UNCHANGED dvars
    /\ \E fallback \in (IF opts.enable_javascript THEN BOOLEAN ELSE {FALSE}) :
       \E first \in (IF opts.enable_javascript THEN Chains(final, TRUE) ELSE {<<final>>}) :
       \E second \in (IF opts.enable_javascript /\ ~fallback
                      THEN {<<final>>} ELSE Chains(final, opts.follow_redirects)) :
       LET used == IF opts.enable_javascript
                   THEN IF fallback THEN Hops(first) \cup Hops(second) ELSE Hops(first)
                   ELSE Hops(second)
           last == IF opts.enable_javascript /\ ~fallback THEN Last(first) ELSE Last(second)
       IN  /\ (~opts.enable_javascript => first = <<final>> /\ ~fallback)
           /\ (opts.enable_javascript /\ ~fallback => second = <<final>>)
           /\ conns' = conns \cup used
           /\ ulog' = Append(ulog, Stage("html", ctype, final))
           /\ \/ /\ ustage' = "done" /\ ures' = "error"
                 /\ UNCHANGED <<final, imgs, imgidx, uunits>>
              \/ \E tags \in ImageLists :
                 /\ final' = last
                 /\ imgs' = (IF opts.process_images THEN tags ELSE <<>>)
                 /\ imgidx' = 1
                 /\ uunits' = <<[kind |-> "page", path |-> last]>>
                 /\ ustage' = "images" /\ ures' = ures

\* _extract_images_from_html: one <img> tag.  A data: URI is decoded in
\* place when base64 images are enabled; any other src goes to
\* _process_single_image, which joins it with the page URL, checks the
\* result with _is_safe_url and only then requests it.
ProcessImage ==
    /\ UNCHANGED <<avars, ovars>>
    /\ ustage = "images" /\ imgidx <= Len(imgs)
    /\ imgidx' = imgidx + 1
    /\ UNCHANGED <<url, opts, ustage, usafe, nchecks, conns, ctype, final, imgs, ures, ulog>>
    /\ UNCHANGED dvars
    /\ LET src     == imgs[imgidx]
           img_url == UrlJoin(final, src)
       IN  IF src.kind = "data" /\ opts.enable_base64_images
           THEN /\ \/ uunits' = Append(uunits, [kind |-> "base64", path |-> src.u])
                   \/ uunits' = uunits
                /\ UNCHANGED <<imgreq, imgskip>>
           ELSE IF ImageRejected(img_url)
           THEN /\ imgskip' = imgskip \cup {img_url}
                /\ UNCHANGED <<imgreq, uunits>>
           ELSE /\ imgreq' = imgreq \cup {img_url}
                /\ imgskip' = imgskip
                /\ \/ uunits' = Append(uunits, [kind |-> "image", path |-> img_url])
                   \/ uunits' = uunits

\* _extract_html_page returns the page unit and the image units
ReturnPage ==
    /\ UNCHANGED <<avars, ovars>>
    /\ ustage = "images" /\ imgidx > Len(imgs)
    /\ ustage' = "done" /\ ures' = "ok"
    /\ ulog' = Append(ulog, Stage("dispatch", ctype, final))
    /\ UNCHANGED <<url, opts, usafe, nchecks, conns, ctype, final, imgs, imgidx,
                   imgreq, imgskip, uunits>>
    /\ UNCHANGED dvars

\* no Content-Length header in the response
NoContentLength == 0 - 1

\* nothing was handed to extract_text
NoPayload == 0 - 1

\* response.iter_content(chunk_size=8192)
ChunkSize == 8192

\* what the server answers: the Content-Length it declares and the body it
\* really sends (a server may declare nothing, or less than it sends)
DownloadCases ==
    { [declared |-> 1000,            body |-> 1000],
      [declared |-> NoContentLength, body |-> 20971520],
      [declared |-> 20971520,        body |-> 20971521],
      [declared |-> 31457280,        body |-> 31457280] }

\* the number of chunks taken from the response in one step of the model:
\* half of what fits under the cap
ChunkRun == 1280

\* a header check that lets every declared size through
DeclaredTooLargeNever(content_length) == FALSE

\* `if content_length and int(content_length) > settings.MAX_FILE_SIZE`
DeclaredTooLarge(content_length) ==
    content_length # NoContentLength /\ content_length > MAX_FILE_SIZE

\* `if downloaded_size > settings.MAX_FILE_SIZE: raise`, tested before the
\* chunk is written
ExceededDuringDownload(downloaded_size) == downloaded_size > MAX_FILE_SIZE

Min(a, b) == IF a < b THEN a ELSE b

\* the `finally` of _download_and_extract_file: the temporary file, when
\* one was created, is unlinked
Cleanup(temp) == IF temp = "open" THEN "removed" ELSE temp

\* _download_and_extract_file(final_url), up to the creation of the
\* temporary file: the streamed GET, the Content-Length check, the name
DownloadStart ==
    /\ UNCHANGED <<avars, ovars>>
    /\ ustage = "probed" /\ ~IsHtmlContent(ctype, final)
    /\ UNCHANGED <<url, opts, usafe, nchecks, ctype, final, imgs, imgidx, imgreq,
                   imgskip, uunits>>
    /\ ulog' = Append(ulog, Stage("download", ctype, final))
    /\ \E chain \in Chains(final, opts.follow_redirects) :
       /\ conns' = conns \cup Hops(chain)
       /\ \/ \* the request fails, or raise_for_status raises
             /\ ustage' = "done" /\ ures' = "error"
             /\ UNCHANGED dvars
          \/ \E answer \in DownloadCases :
             /\ dldeclared' = answer.declared /\ dlbody' = answer.body
             /\ UNCHANGED <<dlread, dlwritten, dlpayload>>
             /\ IF DeclaredTooLarge(answer.declared)
                THEN /\ ustage' = "done" /\ ures' = "error"
                     /\ dltemp' = Cleanup(dltemp)
                ELSE /\ ustage' = "download" /\ ures' = ures
                     /\ dltemp' = "open"

\* the download loop: a run of chunks is taken from the response; each
\* chunk is counted, checked against the cap and only then written
DownloadChunks ==
    /\ UNCHANGED <<avars, ovars>>
    /\ ustage = "download" /\ dlread < dlbody
    /\ UNCHANGED <<url, opts, usafe, nchecks, conns, ctype, final, imgs, imgidx,
                   imgreq, imgskip, uunits, ulog, dldeclared, dlbody, dlpayload>>
    /\ \E aborted \in BOOLEAN :
       LET n    == Min(ChunkRun * ChunkSize, dlbody - dlread)
           \* the whole chunks that still fit under the cap
           fit  == (MAX_FILE_SIZE - dlread) \div ChunkSize
           over == Min((fit + 1) * ChunkSize, n)
       IN  IF aborted
           THEN /\ ustage' = "done" /\ ures' = "error"
                /\ dltemp' = Cleanup(dltemp)
                /\ UNCHANGED <<dlread, dlwritten>>
           ELSE IF ExceededDuringDownload(dlread + n)
           THEN /\ dlread' = dlread + over
                /\ dlwritten' = dlwritten + fit * ChunkSize
                /\ ustage' = "done" /\ ures' = "error"
                /\ dltemp' = Cleanup(dltemp)
           ELSE /\ dlread' = dlread + n
                /\ dlwritten' = dlwritten + n
                /\ UNCHANGED <<ustage, ures, dltemp>>

\* the end of _download_and_extract_file: the temporary file is read back
\* and its content handed to extract_text; the `finally` removes the file
DownloadDispatch ==
    /\ UNCHANGED <<avars, ovars>>
    /\ ustage = "download" /\ dlread = dlbody
    /\ UNCHANGED <<url, opts, usafe, nchecks, conns, ctype, final, imgs, imgidx,
                   imgreq, imgskip, uunits, dldeclared, dlbody, dlread, dlwritten>>
    /\ ulog' = Append(ulog, Stage("dispatch", ctype, final))
    /\ dlpayload' = dlwritten
    /\ dltemp' = Cleanup(dltemp)
    /\ ustage' = "done"
    /\ ures' \in {"dispatched", "error"}

DIdle ==
    /\ dldeclared = NoContentLength /\ dlbody = 0 /\ dlread = 0 /\ dlwritten = 0
    /\ dltemp = "none" /\ dlpayload = NoPayload

UInit ==
    /\ url \in UrlChoices
    /\ opts \in [ follow_redirects : BOOLEAN, enable_javascript : BOOLEAN,
                  process_images : {TRUE}, enable_base64_images : BOOLEAN ]
    /\ ustage = "start"
    /\ usafe = "unknown"
    /\ nchecks = 0
    /\ conns = {}
    /\ ctype = <<>>
    /\ final = url
    /\ imgs = <<>>
    /\ imgidx = 1
    /\ imgreq = {}
    /\ imgskip = {}
    /\ uunits = <<>>
    /\ ures = "none"
    /\ ulog = <<>>
    /\ DIdle

\* the state of the part that is not running
AIdle ==
    /\ req = [name |-> <<>>, size |-> 0, data |-> "ok"]
    /\ status = "idle"
    /\ stack = <<>> /\ out = <<>> /\ writes = {} /\ ledger = 0
    /\ opened = {} /\ policy = {} /\ calls = 0 /\ budget = 0 /\ failed = {}

UIdle ==
    /\ url = Url(<<>>, <<>>, <<>>)
    /\ opts = [ follow_redirects |-> FALSE, enable_javascript |-> FALSE,
                process_images |-> FALSE, enable_base64_images |-> FALSE ]
    /\ ustage = "idle" /\ usafe = "unknown" /\ nchecks = 0 /\ conns = {}
    /\ ctype = <<>> /\ final = Url(<<>>, <<>>, <<>>) /\ imgs = <<>> /\ imgidx = 1
    /\ imgreq = {} /\ imgskip = {} /\ uunits = <<>> /\ ures = "none"
    /\ ulog = <<>> /\ DIdle

(***************************************************************************)
(* SpecSan: _sanitize_archive_filename applied to one name.                *)
(***************************************************************************)

\* the longest name enumerated
MaxNameLen == 5

\* the characters the enumerated names are written with
NameAlphabet == { ".", "/", "\\", "a" }

\* the names of the unit test and of the documentation
NameExamples ==
    { <<".",".","/",".",".","/",".",".","/","e","t","c","/","p","a","s","s","w","d">>, <<".",".","\\",".",".","\\","w","i","n","d","o","w","s","\\","s","y","s","t","e","m","3","2">>, <<".","/","f","i","l","e",".","t","x","t">>,
      <<"n","o","r","m","a","l","_","f","i","l","e",".","t","x","t">>, <<".",".","/",".",".","/","e","t","c","/","p","a","s","s","w","d">> }

NameChoices == UNION { [1..n -> NameAlphabet] : n \in 0..MaxNameLen } \cup NameExamples

SInit == sname \in NameChoices /\ sres = <<>> /\ sstage = "ready"

SIdle == sname = <<>> /\ sres = <<>> /\ sstage = "idle"

\* safe_filename = self._sanitize_archive_filename(name)
Sanitize ==
    /\ UNCHANGED <<avars, uvars, pvars, lvars, xvars>>
    /\ sstage = "ready"
    /\ sres' = SanitizeArchiveFilename(sname)
    /\ sstage' = "done"
    /\ UNCHANGED sname

(***************************************************************************)
(* run_subprocess_with_limits (app/utils.py).                              *)
(***************************************************************************)

MAX_SUBPROCESS_MEMORY == 1073741824

MAX_TESSERACT_MEMORY == 536870912

\* the longest timeout a call is made with, in seconds
MaxTimeout == 2

\* memory_limit = None
NoLimit == 0

\* subprocess.run(timeout=None): no deadline
NoTimeout == 0 - 1

\* a call that hands no timeout to subprocess.run
RunTimeoutNone(timeout) == NoTimeout

\* `timeout=timeout` in both subprocess.run calls
RunTimeout(timeout) == timeout

\* `if memory_limit is None: memory_limit = settings.MAX_SUBPROCESS_MEMORY`
EffectiveMemoryLimit(memory_limit) ==
    IF memory_limit = NoLimit THEN MAX_SUBPROCESS_MEMORY ELSE memory_limit

\* the RLIMIT_CPU value of preexec_fn
CpuLimit(timeout) == timeout * 2

NoLimits == [as |-> 0, data |-> 0, cpu |-> 0]

\* preexec_fn: three setrlimit calls in a try block; the k-th one raising
\* (k = 0: none raises) is caught and logged, the calls after it are not made
PreexecLimits(memory_limit, timeout, k) ==
    [ as   |-> IF k = 0 \/ k > 1 THEN memory_limit ELSE 0,
      data |-> IF k = 0 \/ k > 2 THEN memory_limit ELSE 0,
      cpu  |-> IF k = 0 THEN CpuLimit(timeout) ELSE 0 ]

\* how a started command can end by itself: (return code, cause).  A child
\* killed by a signal n has return code -n; a ceiling on memory ends the
\* child by SIGKILL (-9) or by an abort after a failed allocation (-6).
ChildEndings(limits) ==
    { [rc |-> 0, cause |-> "normal"], [rc |-> 1, cause |-> "normal"],
      [rc |-> 137, cause |-> "normal"] }
    \cup IF limits.as # 0
         THEN { [rc |-> 0 - 9, cause |-> "memory"], [rc |-> 0 - 6, cause |-> "memory"] }
         ELSE {}

\* what the call does with an ended child: subprocess.run raises
\* CalledProcessError only under check=True; the enabled branch turns
\* return code 137 into MemoryError
CompletionOutcome(enabled, check, rc) ==
    IF check /\ rc # 0
    THEN IF enabled /\ rc = 137 THEN "memory_error" ELSE "called_process_error"
    ELSE "completed"

PInit ==
    /\ pcfg \in [ enabled : BOOLEAN, timeout : 1..MaxTimeout,
                  memory_limit : {NoLimit, MAX_TESSERACT_MEMORY}, check : BOOLEAN ]
    /\ pstage = "start" /\ plimits = NoLimits /\ pchild = "none"
    /\ prc = 0 /\ pcause = "none" /\ pclock = 0 /\ pout = "none"

PIdle ==
    /\ pcfg = [enabled |-> FALSE, timeout |-> 1, memory_limit |-> NoLimit, check |-> FALSE]
    /\ pstage = "idle" /\ plimits = NoLimits /\ pchild = "none"
    /\ prc = 0 /\ pcause = "none" /\ pclock = 0 /\ pout = "none"

\* subprocess.run creates the child, or fails to (OSError is re-raised)
Fork ==
    /\ UNCHANGED <<avars, uvars, svars, lvars, xvars>>
    /\ pstage = "start"
    /\ UNCHANGED <<pcfg, plimits, prc, pcause, pclock>>
    /\ \/ pstage' = "forked" /\ pchild' = "alive" /\ pout' = pout
       \/ pstage' = "done" /\ pchild' = pchild /\ pout' = "os_error"

\* in the child, before the command: preexec_fn when enforcement is on,
\* then exec; a command that cannot be exec'd ends the call with OSError
Exec ==
    /\ UNCHANGED <<avars, uvars, svars, lvars, xvars>>
    /\ pstage = "forked"
    /\ UNCHANGED <<pcfg, prc, pcause, pclock>>
    /\ \E k \in 0..3 :
       /\ plimits' = IF pcfg.enabled
                     THEN PreexecLimits(EffectiveMemoryLimit(pcfg.memory_limit), pcfg.timeout, k)
                     ELSE NoLimits
       /\ \/ pstage' = "running" /\ pchild' = pchild /\ pout' = pout
          \/ pstage' = "done" /\ pchild' = "exited" /\ pout' = "os_error"

\* a second of wall-clock time passes while the command runs
Tick ==
    /\ UNCHANGED <<avars, uvars, svars, lvars, xvars>>
    /\ pstage = "running" /\ pchild = "alive"
    /\ pclock < MaxTimeout
    /\ RunTimeout(pcfg.timeout) = NoTimeout \/ pclock < RunTimeout(pcfg.timeout)
    /\ pclock' = pclock + 1
    /\ UNCHANGED <<pcfg, pstage, plimits, pchild, prc, pcause, pout>>

\* the command ends by itself
ChildExit ==
    /\ UNCHANGED <<avars, uvars, svars, lvars, xvars>>
    /\ pstage = "running" /\ pchild = "alive"
    /\ \E e \in ChildEndings(plimits) :
       /\ prc' = e.rc /\ pcause' = e.cause
       /\ pchild' = IF e.rc < 0 THEN "killed" ELSE "exited"
    /\ pstage' = "exited"
    /\ UNCHANGED <<pcfg, plimits, pclock, pout>>

\* subprocess.run sees the child gone: it returns, or raises under check
Complete ==
    /\ UNCHANGED <<avars, uvars, svars, lvars, xvars>>
    /\ pstage = "exited"
    /\ pout' = CompletionOutcome(pcfg.enabled, pcfg.check, prc)
    /\ pstage' = "done"
    /\ UNCHANGED <<pcfg, plimits, pchild, prc, pcause, pclock>>

\* the timeout of subprocess.run expires: the child is killed and waited
\* for, and TimeoutExpired is raised (re-raised by the enabled branch)
TimeoutKill ==
    /\ UNCHANGED <<avars, uvars, svars, lvars, xvars>>
    /\ pstage = "running" /\ pchild = "alive"
    /\ RunTimeout(pcfg.timeout) # NoTimeout /\ pclock >= RunTimeout(pcfg.timeout)
    /\ pchild' = "killed" /\ prc' = 0 - 9
    /\ pout' = "timeout" /\ pstage' = "done"
    /\ UNCHANGED <<pcfg, plimits, pcause, pclock>>

(***************************************************************************)
(* _safe_scroll_for_lazy_loading.                                          *)
(***************************************************************************)

\* the largest max_scroll_attempts a call is made with
MaxScrollAttempts == 4

\* document.body.scrollHeight before the first scroll
InitialHeights == { 0, 100 }

\* document.body.scrollHeight after a scroll
Heights == { 0, 100, 200, 300, 400, 500, 1000, 1001 }

\* a loop test that lets one iteration too many through
LoopContinuesOnceMore(scroll_attempts, max_scroll_attempts) ==
    scroll_attempts <= max_scroll_attempts

\* `while scroll_attempts < max_scroll_attempts`
LoopContinues(scroll_attempts, max_scroll_attempts) ==
    scroll_attempts < max_scroll_attempts

\* a stability test that is satisfied by one unchanged measurement
StableEnoughAtOnce(stable_count) == stable_count >= 1

\* `if stable_count >= 2: break`
StableEnough(stable_count) == stable_count >= 2

\* `if new_height > initial_height * 10: break`
Runaway(new_height, initial_height) == new_height > initial_height * 10

LInit ==
    /\ lmax \in 0..MaxScrollAttempts
    /\ linit \in InitialHeights
    /\ lattempts = 0 /\ llast = linit /\ lstable = 0
    /\ lhist = <<>> /\ lscrolls = 0 /\ lstage = "loop" /\ lexit = "none"

LIdle ==
    /\ lmax = 0 /\ linit = 0 /\ lattempts = 0 /\ llast = 0 /\ lstable = 0
    /\ lhist = <<>> /\ lscrolls = 0 /\ lstage = "idle" /\ lexit = "none"

\* one iteration of the while loop: scroll to the end, wait, measure
ScrollIteration ==
    /\ UNCHANGED <<avars, uvars, svars, pvars, xvars>>
    /\ lstage = "loop" /\ LoopContinues(lattempts, lmax)
    /\ lattempts' = lattempts + 1
    /\ lscrolls' = lscrolls + 1
    /\ UNCHANGED <<lmax, linit>>
    /\ \E new_height \in Heights :
       /\ lhist' = Append(lhist, new_height)
       /\ IF new_height = llast
          THEN /\ lstable' = lstable + 1
               /\ llast' = llast
               /\ IF StableEnough(lstable + 1)
                  THEN lstage' = "done" /\ lexit' = "stable"
                  ELSE IF Runaway(new_height, linit)
                  THEN lstage' = "done" /\ lexit' = "runaway"
                  ELSE lstage' = lstage /\ lexit' = lexit
          ELSE /\ lstable' = 0
               /\ llast' = new_height
               /\ IF Runaway(new_height, linit)
                  THEN lstage' = "done" /\ lexit' = "runaway"
                  ELSE lstage' = lstage /\ lexit' = lexit

\* the loop test fails: back to the top of the page and return
LoopExit ==
    /\ UNCHANGED <<avars, uvars, svars, pvars, xvars>>
    /\ lstage = "loop" /\ ~LoopContinues(lattempts, lmax)
    /\ lstage' = "done" /\ lexit' = "cap"
    /\ UNCHANGED <<lmax, linit, lattempts, llast, lstable, lhist, lscrolls>>

\* page.evaluate raises: `except Exception` logs it and the call returns
ScrollFails ==
    /\ UNCHANGED <<avars, uvars, svars, pvars, xvars>>
    /\ lstage = "loop"
    /\ lstage' = "done" /\ lexit' = "exception"
    /\ UNCHANGED <<lmax, linit, lattempts, llast, lstable, lhist, lscrolls>>

(***************************************************************************)
(* get_file_extension and _is_system_file applied to one name.             *)
(***************************************************************************)

\* the names of the unit tests of both functions, the entries of the
\* system-file list used as names, and names that end with a dot
UtilNameExamples ==
    { <<"t","e","s","t",".","t","x","t">>, <<"d","o","c","u","m","e","n","t",".","p","d","f">>, <<"a","r","c","h","i","v","e",".","t","a","r",".","g","z">>, <<"b","a","c","k","u","p",".","t","a","r",".","b","z","2">>, <<"d","a","t","a",".","t","a","r",".","x","z">>,
      <<"R","E","A","D","M","E">>, <<".","g","i","t","i","g","n","o","r","e">>, <<"f","i","l","e",".","n","a","m","e",".","w","i","t","h",".","d","o","t","s",".","t","x","t">>, <<"F","I","L","E",".","T","X","T">>,
      <<"A","r","c","h","i","v","e",".","T","A","R",".","G","Z">>, <<"a",".","t","g","z">>, <<"a",".","T","B","Z","2">>, <<"a",".","t","x","z">>, <<"n","a","m","e",".">>,
      <<".","D","S","_","S","t","o","r","e">>, <<"T","h","u","m","b","s",".","d","b">>, <<".","g","i","t","/","c","o","n","f","i","g">>, <<".","s","v","n","/","e","n","t","r","i","e","s">>, <<".","h","g","/","a",".","t","x","t">>,
      <<"_","_","M","A","C","O","S","X","/","a",".","t","x","t">>, <<".","l","o","c","a","l","i","z","e","d">>, <<"d","e","s","k","t","o","p",".","i","n","i">>, <<"d","/","f","o","l","d","e","r",".","i","n","i">>,
      <<"r","e","g","u","l","a","r","_","f","i","l","e",".","t","x","t">> }

\* the names the functions are called with: None, and every name of the
\* alphabet up to the bound
UtilNames == { NoExtension } \cup NameChoices \cup UtilNameExamples

NInit == nname \in UtilNames /\ ncalled = {} /\ nres = NoExtension /\ nsys = FALSE

NIdle == nname = <<>> /\ ncalled = {"ext", "sys"} /\ nres = NoExtension /\ nsys = FALSE

\* extension = get_file_extension(filename)
CallGetFileExtension ==
    /\ UNCHANGED <<avars, uvars, svars, pvars, lvars, hvars, kvars>>
    /\ "ext" \notin ncalled
    /\ nres' = GetFileExtension(nname)
    /\ ncalled' = ncalled \cup {"ext"}
    /\ UNCHANGED <<nname, nsys>>

\* self._is_system_file(filename), called with a string
CallIsSystemFile ==
    /\ UNCHANGED <<avars, uvars, svars, pvars, lvars, hvars, kvars>>
    /\ "sys" \notin ncalled /\ nname # NoExtension
    /\ nsys' = IsSystemFile(nname)
    /\ ncalled' = ncalled \cup {"sys"}
    /\ UNCHANGED <<nname, nres>>

(***************************************************************************)
(* app/main.py: the endpoints /v1/extract/file and /v1/extract/base64.     *)
(***************************************************************************)

\* file.size is None
NoSize == 0 - 1

\* the characters secure_filename keeps
KeptChars ==
    { "a", "b", "c", "d", "e", "n", "p", "s", "t", "v", "x", "y", "z", "i",
      ".", "_", "-" }

RECURSIVE KeepChars(_)
KeepChars(name) ==
    IF name = <<>> THEN <<>>
    ELSE IF Head(name) \in KeptChars THEN <<Head(name)>> \o KeepChars(Tail(name))
    ELSE IF Head(name) = "/" THEN <<"_">> \o KeepChars(Tail(name))
    ELSE KeepChars(Tail(name))

RECURSIVE StripDotUnderscore(_)
StripDotUnderscore(name) ==
    IF name = <<>> THEN <<>>
    ELSE IF Head(name) \in {".", "_"} THEN StripDotUnderscore(Tail(name))
    ELSE IF name[Len(name)] \in {".", "_"}
         THEN StripDotUnderscore(SubSeq(name, 1, Len(name) - 1))
    ELSE name

\* sanitize_filename(filename): werkzeug's secure_filename, with a default
\* name when nothing is left
SanitizeFilename(filename) ==
    IF filename = <<>> THEN <<"u","n","k","n","o","w","n","_","f","i","l","e">>
    ELSE LET secure_name == StripDotUnderscore(KeepChars(filename))
         IN  IF secure_name = <<>> THEN <<"s","a","n","i","t","i","z","e","d","_","f","i","l","e">> ELSE secure_name

\* the requests: a text file, an archive, a name without extension, a name
\* of no supported format, a hidden file, a name with a directory
ApiNames == { <<"a",".","t","x","t">>, <<"a",".","z","i","p">>, <<"b">>, <<"a",".","x","y","z">>, <<".","p","y">>, <<"d","/","a",".","t","x","t">> }

ApiSizes == { NoSize, 0, 1000, 20971520, 20971521 }

ApiRequests ==
    { r \in [ endpoint : {"file", "base64"},
              filename : ApiNames,
              size     : ApiSizes,
              b64ok    : BOOLEAN,
              mime_ok  : BOOLEAN,
              outcome  : {"ok", "value_error", "exception"} ] :
        /\ (r.endpoint = "file" => r.b64ok)
        /\ (r.endpoint = "base64" => r.size # NoSize) }

\* a size check that lets every size through
TooLargeNever(size) == FALSE

\* `if file.size > settings.MAX_FILE_SIZE` / `if file_size > settings.MAX_FILE_SIZE`
TooLarge(size) == size > MAX_FILE_SIZE

\* `if not content`
IsEmpty(size) == size = 0

\* validate_file_type(content, original_filename): no extension is invalid;
\* otherwise the detected MIME type decides
ValidateFileType(r) ==
    ~Falsy(GetFileExtension(r.filename)) /\ r.mime_ok

\* how text_extractor.extract_text(content, safe_filename) ends: an
\* unsupported name raises ValueError("Unsupported file format: ...")
ExtractionOutcome(r) ==
    LET safe == SanitizeFilename(r.filename) IN
    IF ~IsArchiveFormat(safe) /\ ~IsSupportedFormat(safe) THEN "unsupported"
    ELSE r.outcome

\* the JSONResponse bodies of the handlers, FastAPI's body for an
\* HTTPException, and the success body
\* (each body is written with the same keys; "absent" and FALSE mark the
\* keys a body does not have)
ErrorBody(r) ==
    [status |-> "error", filename |-> r.filename, message |-> TRUE,
     detail |-> FALSE, files |-> FALSE]

DetailBody ==
    [status |-> "absent", filename |-> NoExtension, message |-> FALSE,
     detail |-> TRUE, files |-> FALSE]

SuccessBody(r) ==
    [status |-> "success", filename |-> r.filename, message |-> FALSE,
     detail |-> FALSE, files |-> TRUE]

NoBody ==
    [status |-> "absent", filename |-> NoExtension, message |-> FALSE,
     detail |-> FALSE, files |-> FALSE]

Response(code, body) == [code |-> code, body |-> body]

\* a handler that answers 422 to every ValueError
ValueErrorStatusAlways422(message) == 422

\* `except ValueError`: 415 when the message holds "Unsupported file
\* format", 422 otherwise
ValueErrorStatus(message) == IF message = "unsupported" THEN 415 ELSE 422

\* the response of the handler once extract_text has returned or raised
ResponseFor(r) ==
    LET end == ExtractionOutcome(r) IN
    IF end = "ok" THEN Response(200, SuccessBody(r))
    ELSE IF end \in {"unsupported", "value_error"}
         THEN Response(ValueErrorStatus(end), ErrorBody(r))
    ELSE Response(422, ErrorBody(r))

HInit ==
    /\ hin \in ApiRequests
    /\ hstage = "start" /\ hchecks = <<>> /\ hcalled = FALSE
    /\ hresp = Response(0, NoBody)
    /\ hworker = "none" /\ hproc = "none" /\ htmp = "none"

HIdle ==
    /\ hin = [ endpoint |-> "file", filename |-> <<>>, size |-> 0, b64ok |-> TRUE,
               mime_ok |-> TRUE, outcome |-> "ok" ]
    /\ hstage = "idle" /\ hchecks = <<>> /\ hcalled = FALSE
    /\ hresp = Response(0, NoBody)
    /\ hworker = "none" /\ hproc = "none" /\ htmp = "none"

\* extract_text_base64: base64.b64decode(request.encoded_base64_file)
DecodeBase64 ==
    /\ UNCHANGED <<avars, uvars, svars, pvars, lvars, nvars, kvars>>
    /\ hstage = "start" /\ hin.endpoint = "base64"
    /\ IF hin.b64ok
       THEN hstage' = "decoded" /\ hresp' = hresp
       ELSE hstage' = "done" /\ hresp' = Response(400, ErrorBody(hin))
    /\ UNCHANGED <<hin, hchecks, hcalled, hworker, hproc, htmp>>

\* the size checks: a missing size (file endpoint) answers 400, a size
\* above MAX_FILE_SIZE raises HTTPException(413)
CheckSize ==
    /\ UNCHANGED <<avars, uvars, svars, pvars, lvars, nvars, kvars>>
    /\ \/ hstage = "start" /\ hin.endpoint = "file"
       \/ hstage = "decoded"
    /\ hchecks' = Append(hchecks, "size")
    /\ IF hin.size = NoSize
       THEN hstage' = "done" /\ hresp' = Response(400, ErrorBody(hin))
       ELSE IF TooLarge(hin.size)
       THEN hstage' = "done" /\ hresp' = Response(413, DetailBody)
       ELSE hstage' = "sized" /\ hresp' = hresp
    /\ UNCHANGED <<hin, hcalled, hworker, hproc, htmp>>

\* the content is read (file endpoint) and an empty one raises
\* HTTPException(422)
CheckEmpty ==
    /\ UNCHANGED <<avars, uvars, svars, pvars, lvars, nvars, kvars>>
    /\ hstage = "sized"
    /\ hchecks' = Append(hchecks, "empty")
    /\ IF IsEmpty(hin.size)
       THEN hstage' = "done" /\ hresp' = Response(422, DetailBody)
       ELSE hstage' = "nonempty" /\ hresp' = hresp
    /\ UNCHANGED <<hin, hcalled, hworker, hproc, htmp>>

\* validate_file_type; a mismatch answers 415
CheckType ==
    /\ UNCHANGED <<avars, uvars, svars, pvars, lvars, nvars, kvars>>
    /\ hstage = "nonempty"
    /\ hchecks' = Append(hchecks, "type")
    /\ IF ValidateFileType(hin)
       THEN hstage' = "validated" /\ hresp' = hresp
       ELSE hstage' = "done" /\ hresp' = Response(415, ErrorBody(hin))
    /\ UNCHANGED <<hin, hcalled, hworker, hproc, htmp>>

\* asyncio.wait_for(run_in_threadpool(text_extractor.extract_text, ...)):
\* the extraction starts in a thread of the pool; it may create its
\* temporary directory and start an external process
StartExtraction ==
    /\ UNCHANGED <<avars, uvars, svars, pvars, lvars, nvars, kvars>>
    /\ hstage = "validated"
    /\ hstage' = "extracting" /\ hcalled' = TRUE /\ hworker' = "running"
    /\ \E external \in BOOLEAN :
          /\ hproc' = IF external THEN "alive" ELSE "none"
          /\ htmp' = IF external \/ IsArchiveFormat(SanitizeFilename(hin.filename))
                     THEN "exists" ELSE "none"
    /\ UNCHANGED <<hin, hchecks, hresp>>

\* what the thread leaves behind when extract_text returns or raises
EndOfProcess(proc) == IF proc = "alive" THEN "exited" ELSE proc

EndOfTmp(tmp) == IF tmp = "exists" THEN "removed" ELSE tmp

\* extract_text returns or raises within the time limit: the handler
\* builds the success body or goes through its except clauses
ExtractionEnds ==
    /\ UNCHANGED <<avars, uvars, svars, pvars, lvars, nvars, kvars>>
    /\ hstage = "extracting" /\ hworker = "running"
    /\ hworker' = "finished" /\ hproc' = EndOfProcess(hproc) /\ htmp' = EndOfTmp(htmp)
    /\ hstage' = "done"
    /\ hresp' = ResponseFor(hin)
    /\ UNCHANGED <<hin, hchecks, hcalled>>

\* asyncio.TimeoutError: the handler answers 504; nothing stops the thread
\* of the pool, which goes on with what it was doing
ProcessingTimeout ==
    /\ UNCHANGED <<avars, uvars, svars, pvars, lvars, nvars, kvars>>
    /\ hstage = "extracting" /\ hworker = "running"
    /\ hstage' = "done"
    /\ hresp' = Response(504, ErrorBody(hin))
    /\ UNCHANGED <<hin, hchecks, hcalled, hworker, hproc, htmp>>

\* the abandoned thread reaches the end of extract_text after the answer
AbandonedThreadEnds ==
    /\ UNCHANGED <<avars, uvars, svars, pvars, lvars, nvars, kvars>>
    /\ hstage = "done" /\ hworker = "running"
    /\ hworker' = "finished" /\ hproc' = EndOfProcess(hproc) /\ htmp' = EndOfTmp(htmp)
    /\ UNCHANGED <<hin, hstage, hchecks, hcalled, hresp>>

(***************************************************************************)
(* Two requests at once on the shared TextExtractor (app/main.py creates   *)
(* one instance; run_in_threadpool runs each extract_text in a thread).    *)
(***************************************************************************)

Requests == {1, 2}

\* at most this many members in the archive of a concurrent request
MaxConcMembers == 2

\* this many names tempfile can give a directory
NumTempNames == 3

TempNames == 1..NumTempNames

KMemberChoices ==
    { Member(<<"a",".","t","x","t">>, 1000, FALSE, "ok"),
      Member(<<"b",".","t","x","t">>, 62914560, FALSE, "ok") }

KMemberLists == UNION { [1..n -> KMemberChoices] : n \in 0..MaxConcMembers }

\* the temporary directories that exist
ExistingDirs == { kdir[r] : r \in { q \in Requests : kdir[q] # 0 } }

\* a tempfile that may give a name already in use
FreshDirsAny(existing) == TempNames

\* tempfile.TemporaryDirectory(): mkdtemp creates a directory under a name
\* that does not exist yet
FreshDirs(existing) == TempNames \ existing

\* a file written at a path of a directory replaces the one that was there
WriteFile(fs, d, path, r) ==
    { f \in fs : ~(f.dir = d /\ f.path = path) }
       \cup { [dir |-> d, path |-> path, owner |-> r] }

\* the exit of the `with` block removes the directory and all it holds
RemoveTree(fs, d) == { f \in fs : f.dir # d }

KInit ==
    /\ kreq \in [Requests -> KMemberLists]
    /\ kpc = [r \in Requests |-> "start"]
    /\ kdir = [r \in Requests |-> 0]
    /\ ktotal = [r \in Requests |-> 0]
    /\ kidx = [r \in Requests |-> 1]
    /\ kres = [r \in Requests |-> "none"]
    /\ kfs = {}

KIdle ==
    /\ kreq = [r \in Requests |-> <<>>]
    /\ kpc = [r \in Requests |-> "idle"]
    /\ kdir = [r \in Requests |-> 0]
    /\ ktotal = [r \in Requests |-> 0]
    /\ kidx = [r \in Requests |-> 1]
    /\ kres = [r \in Requests |-> "none"]
    /\ kfs = {}

\* _extract_from_archive: the temporary directory is created and the
\* archive written into it
EnterArchive(r) ==
    /\ kpc[r] = "start"
    /\ \E d \in FreshDirs(ExistingDirs) :
          /\ kdir' = [kdir EXCEPT ![r] = d]
          /\ kfs' = WriteFile(kfs, d, <<"a","r","c","h","i","v","e">>, r)
    /\ kpc' = [kpc EXCEPT ![r] = "scan"]
    /\ UNCHANGED <<kreq, ktotal, kidx, kres>>

\* _extract_zip_files: total_size = 0 and the pre-scan loop; the raise
\* leaves the `with` block of _extract_from_archive
PrescanOf(r) ==
    /\ kpc[r] = "scan"
    /\ IF PrescanRejects(kreq[r])
       THEN /\ kpc' = [kpc EXCEPT ![r] = "done"]
            /\ kres' = [kres EXCEPT ![r] = "error"]
            /\ kfs' = RemoveTree(kfs, kdir[r])
            /\ kdir' = [kdir EXCEPT ![r] = 0]
            /\ UNCHANGED ktotal
       ELSE /\ kpc' = [kpc EXCEPT ![r] = "members"]
            /\ ktotal' = [ktotal EXCEPT ![r] = DeclaredTotal(kreq[r])]
            /\ UNCHANGED <<kres, kfs, kdir>>
    /\ UNCHANGED <<kreq, kidx>>

\* _extract_zip_files: one iteration of the extraction loop
ExtractMemberOf(r) ==
    /\ kpc[r] = "members" /\ kidx[r] <= Len(kreq[r])
    /\ kfs' = WriteFile(kfs, kdir[r],
                        <<"e","x","t","r","a","c","t","e","d","/">> \o SanitizeArchiveFilename(kreq[r][kidx[r]].name), r)
    /\ kidx' = [kidx EXCEPT ![r] = kidx[r] + 1]
    /\ UNCHANGED <<kreq, kpc, kdir, ktotal, kres>>

\* the loop is over: the units are returned and the `with` block left
ReturnOf(r) ==
    /\ kpc[r] = "members" /\ kidx[r] > Len(kreq[r])
    /\ kpc' = [kpc EXCEPT ![r] = "done"]
    /\ kres' = [kres EXCEPT ![r] = "ok"]
    /\ kfs' = RemoveTree(kfs, kdir[r])
    /\ kdir' = [kdir EXCEPT ![r] = 0]
    /\ UNCHANGED <<kreq, ktotal, kidx>>

EnterArchiveStep ==
    /\ UNCHANGED <<avars, uvars, svars, pvars, lvars, nvars, hvars>>
    /\ \E r \in Requests : EnterArchive(r)

PrescanStep ==
    /\ UNCHANGED <<avars, uvars, svars, pvars, lvars, nvars, hvars>>
    /\ \E r \in Requests : PrescanOf(r)

ExtractMemberStep ==
    /\ UNCHANGED <<avars, uvars, svars, pvars, lvars, nvars, hvars>>
    /\ \E r \in Requests : ExtractMemberOf(r)

ReturnStep ==
    /\ UNCHANGED <<avars, uvars, svars, pvars, lvars, nvars, hvars>>
    /\ \E r \in Requests : ReturnOf(r)

XIdle == NIdle /\ HIdle /\ KIdle

OIdle == SIdle /\ PIdle /\ LIdle /\ XIdle

AInit ==
    /\ req \in Uploads
    /\ status = "ready"
    /\ stack = <<>>
    /\ out = <<>>
    /\ writes = {}
    /\ ledger = 0
    /\ opened = {}
    /\ policy = {}
    /\ calls = 0
    /\ budget = MaxTreeMembers
    /\ failed = {}

vars == <<avars, uvars, ovars>>

(***************************************************************************)
(* Spec: one upload through extract_text.                                  *)
(***************************************************************************)
Init == AInit /\ UIdle /\ OIdle

Next ==
    \/ ExtractText
    \/ Prescan
    \/ ExtractMember
    \/ ExtractAll7z
    \/ WalkMember
    \/ Return

Spec == Init /\ [][Next]_vars

(***************************************************************************)
(* SpecUrl: one URL through extract_from_url.                              *)
(***************************************************************************)
InitUrl == UInit /\ AIdle /\ OIdle

NextUrl ==
    \/ Validate
    \/ ProbeContentType
    \/ FetchHtmlPage
    \/ ProcessImage
    \/ ReturnPage
    \/ DownloadStart
    \/ DownloadChunks
    \/ DownloadDispatch

SpecUrl == InitUrl /\ [][NextUrl]_vars

(***************************************************************************)
(* SpecSan: one name through _sanitize_archive_filename.                   *)
(***************************************************************************)
InitSan == SInit /\ AIdle /\ UIdle /\ PIdle /\ LIdle /\ XIdle

NextSan == Sanitize

SpecSan == InitSan /\ [][NextSan]_vars

(***************************************************************************)
(* SpecProc: one call of run_subprocess_with_limits.  SpecProcFair adds    *)
(* what scheduling guarantees: time passes, and the steps of the call      *)
(* itself are taken; a command is never obliged to end by itself.          *)
(***************************************************************************)
InitProc == PInit /\ AIdle /\ UIdle /\ SIdle /\ LIdle /\ XIdle

NextProc ==
    \/ Fork
    \/ Exec
    \/ Tick
    \/ ChildExit
    \/ Complete
    \/ TimeoutKill

SpecProc == InitProc /\ [][NextProc]_vars

SpecProcFair ==
    /\ SpecProc
    /\ WF_vars(Fork) /\ WF_vars(Exec) /\ WF_vars(Tick)
    /\ WF_vars(Complete) /\ WF_vars(TimeoutKill)

(***************************************************************************)
(* SpecScroll: one call of _safe_scroll_for_lazy_loading.  SpecScrollFair  *)
(* adds that the loop keeps being executed.                                *)
(***************************************************************************)
InitScroll == LInit /\ AIdle /\ UIdle /\ SIdle /\ PIdle /\ XIdle

NextScroll ==
    \/ ScrollIteration
    \/ LoopExit
    \/ ScrollFails

SpecScroll == InitScroll /\ [][NextScroll]_vars

SpecScrollFair ==
    /\ SpecScroll
    /\ WF_vars(ScrollIteration) /\ WF_vars(LoopExit)

(***************************************************************************)
(* Claims about the archive unpacker (specification Spec).                 *)
(***************************************************************************)

\* every unit produced so far, returned or still held by an active call
AllUnits ==
    { out[i] : i \in 1..Len(out) }
    \cup UNION { { stack[k].units[i] : i \in 1..Len(stack[k].units) } : k \in 1..Len(stack) }

\* C6: for zip, tar, rar and 7z the pre-scan over all declared member sizes is
\* complete before any member is written: a call still scanning has written
\* nothing, every member on disk belongs to a container whose declared sizes
\* sum to at most MAX_EXTRACTED_SIZE, and a container rejected by the pre-scan
\* has no member written and no unit; rejected at the top level, the request
\* raises with no units.
C6_PrescanBeforeAnyWrite ==
    /\ \A k \in 1..Len(stack) :
          stack[k].pc = "scan" => \A w \in writes : w.fid # stack[k].fid
    /\ \A w \in writes : w.declared <= MAX_EXTRACTED_SIZE
    /\ \A p \in policy :
          p.kind = "bomb" =>
             /\ \A w \in writes : w.fid # p.fid
             /\ \A u \in AllUnits : u.fid # p.fid
             /\ (p.fid = 1 => status = "error" /\ out = <<>>)

\* C6 witness: a 7z upload has been rejected by the pre-scan
C6_Witness ==
    /\ status = "error" /\ writes = {}
    /\ \E p \in policy : p.kind = "bomb" /\ p.fid = 1
    /\ req.name = <<"o",".","7","z">>

\* C7: the declared sizes accepted for extraction, summed over the upload
\* and every container nested in it, never exceed MAX_EXTRACTED_SIZE.
C7_TreeWideLedger == ledger <= MAX_EXTRACTED_SIZE

\* C8: every container unpacked has nesting_level < MAX_ARCHIVE_NESTING and
\* size <= MAX_ARCHIVE_SIZE; the upload is at level 0 and a nested container
\* at its parent's level + 1, so the chain of active calls is never longer
\* than MAX_ARCHIVE_NESTING.
C8_NestingAndSizeBounded ==
    /\ \A o \in opened :
          /\ o.level < MAX_ARCHIVE_NESTING
          /\ o.size <= MAX_ARCHIVE_SIZE
          /\ o.level = o.plevel + 1
    /\ Len(stack) <= MAX_ARCHIVE_NESTING
    /\ \A k \in 1..Len(stack) : stack[k].level = k - 1

\* C8 witness: a container at the deepest allowed level is being unpacked
\* and a container nested one level deeper has been refused
C8_Witness ==
    /\ Len(stack) = MAX_ARCHIVE_NESTING
    /\ \E p \in policy : p.kind = "nesting"

\* C9: a policy violation at any level of the tree fails the whole request:
\* extract_text never returns units once one has been raised.
C9_PolicyViolationFailsRequest == status = "ok" => policy = {}

\* C10: for every container type a member is written only at the extract
\* directory joined with its sanitized name, which is inside the directory,
\* and a member whose name sanitizes to empty is never written.
C10_WritesOnlyAtSanitizedName ==
    \A w \in writes :
        /\ w.at = SanitizeArchiveFilename(w.raw)
        /\ w.at # <<>>
        /\ ~Escapes(w.at)

(***************************************************************************)
(* Claims about the remote fetcher (specification SpecUrl).                *)
(***************************************************************************)

\* C1: every URL connected to during the content-type probe, the page fetch
\* and the file download, redirect hops included, passes the check the
\* initial URL passed (_is_safe_url).
C1_EveryHopValidated == \A u \in conns : IsSafeUrl(u)

\* C2: _is_safe_url(url) returns true only if the scheme is http or https,
\* the hostname is non-empty and is none of the configured blocked hostnames
\* whatever its letter case, and no address the hostname resolves to, of
\* either family, is loopback, private, link-local, the metadata address, a
\* 172.16-31.0.1 gateway or inside a configured blocked range.
C2_SafeOnlyIfNothingBlocked ==
    usafe = "safe" =>
        /\ Lower(url.scheme) \in {HTTP, HTTPS}
        /\ url.host # <<>>
        /\ Lower(url.host) \notin { <<"i","n","t">>, <<"b","l","k",".","i","o">> }
        /\ LET r == GetAddrInfo(Lower(url.host)) IN
           /\ r.ok
           /\ \A i \in 1..Len(r.ips) :
                 /\ ~IsLoopback(r.ips[i]) /\ ~IsPrivate(r.ips[i]) /\ ~IsLinkLocal(r.ips[i])
                 /\ ~IsMetadata(r.ips[i]) /\ ~IsBridgeGateway(r.ips[i])
                 /\ ~InBlockedRange(r.ips[i])

\* C2 witness: a URL whose host has an address of each family was accepted
C2_Witness ==
    /\ usafe = "safe"
    /\ Len(GetAddrInfo(ParsedHostname(url)).ips) = 2
    /\ url.host = <<"P",".","I","O">>

\* C3: no HTTP request is issued for a URL unless _is_safe_url returned true
\* for it, and a URL that fails the check ends the request with an error,
\* no unit and no connection.
C3_NoRequestBeforeValidation ==
    /\ (ustage = "start" => conns = {} /\ imgreq = {})
    /\ (conns # {} \/ imgreq # {} \/ ures \in {"ok", "dispatched"}) =>
           (usafe = "safe" /\ IsSafeUrl(url))
    /\ (ustage # "start" /\ ~IsSafeUrl(url)) =>
           (ures = "error" /\ uunits = <<>> /\ conns = {} /\ imgreq = {})

\* C3 witness: a URL resolving to 127.0.0.1 has been refused
C3_Witness ==
    /\ ParsedHostname(url) = <<"l","o",".","i","o">> /\ ParsedScheme(url) = HTTP
    /\ ustage = "done" /\ ures = "error" /\ conns = {}

\* C4: an image of a fetched page is requested only after _is_safe_url
\* returned true for its absolutised URL; a refused image is not requested,
\* yields no unit and leaves the page extraction succeeding.
C4_ImagesValidatedBeforeDownload ==
    /\ \A u \in imgreq : IsSafeUrl(u)
    /\ \A u \in imgskip :
          /\ u \notin imgreq
          /\ \A i \in 1..Len(uunits) : uunits[i].path # u
    /\ (imgskip # {} => ures # "error")
    /\ (imgskip # {} /\ ustage = "done" => ures = "ok" /\ Len(uunits) >= 1)

\* C4 witness: a page with a refused image has been returned
C4_Witness ==
    /\ Url(HTTP, <<"l","o",".","i","o">>, <<"/","i",".","p","n","g">>) \in imgskip
    /\ ustage = "done" /\ ures = "ok"

\* C5: validation is fail-closed and not retried: when the name does not
\* resolve, or one of the resolved addresses cannot be parsed, the URL is
\* refused, after a single call of _is_safe_url.
C5_FailClosedValidation ==
    /\ nchecks <= 1
    /\ LET r == GetAddrInfo(ParsedHostname(url)) IN
       (usafe # "unknown" /\ (~r.ok \/ \E i \in 1..Len(r.ips) : ParseFails(r.ips[i])))
           => usafe = "unsafe"

(***************************************************************************)
(* Claims about _sanitize_archive_filename (specification SpecSan).        *)
(***************************************************************************)

\* the "/"-separated segments of a name
Segments(name) == Split(name, "/")

\* C11: _sanitize_archive_filename returns the empty string or a "/"-joined
\* sequence of non-empty segments with no backslash and no "." or ".."
\* segment; the documented examples give the documented results; and a name
\* with no "." or ".." segment, no backslash, no leading "/" and no empty
\* segment is returned unchanged.
C11_SanitizeStripsSegments ==
    sstage = "done" =>
        /\ \/ sres = <<>>
           \/ /\ ~HasChar(sres, "\\")
              /\ \A i \in 1..Len(Segments(sres)) :
                    Segments(sres)[i] \notin { <<>>, <<".">>, <<".", ".">> }
        /\ (sname = <<".",".","/",".",".","/",".",".","/","e","t","c","/","p","a","s","s","w","d">> => sres = <<"e","t","c","/","p","a","s","s","w","d">>)
        /\ (sname = <<".",".","\\",".",".","\\","w","i","n","d","o","w","s","\\","s","y","s","t","e","m","3","2">> => sres = <<"w","i","n","d","o","w","s","/","s","y","s","t","e","m","3","2">>)
        /\ (sname = <<".","/","f","i","l","e",".","t","x","t">> => sres = <<"f","i","l","e",".","t","x","t">>)
        /\ ( ( /\ sname # <<>>
               /\ ~HasChar(sname, "\\")
               /\ \A i \in 1..Len(Segments(sname)) :
                     Segments(sname)[i] \notin { <<>>, <<".">>, <<".", ".">> } )
             => sres = sname )

(***************************************************************************)
(* Claims about run_subprocess_with_limits (SpecProc, SpecProcFair).       *)
(***************************************************************************)

\* C12: run_subprocess_with_limits never hangs, with enforcement enabled or
\* disabled: every call ends; a call ends with the child gone; a started
\* command run without `check` ends as a returned CompletedProcess or as
\* TimeoutExpired; TimeoutExpired is raised only once the timeout has
\* elapsed and the child has been killed.
C12_NeverHangs ==
    /\ <>(pstage = "done")
    /\ [](pstage = "done" => pout # "none" /\ pchild # "alive")
    /\ []((pstage = "done" /\ ~pcfg.check /\ pout # "os_error")
             => pout \in {"completed", "timeout"})
    /\ [](pout = "timeout" => pchild = "killed" /\ pclock >= pcfg.timeout)

\* C12 witness: with enforcement disabled, a command that did not end by
\* itself has been killed at the timeout
C12_Witness ==
    /\ ~pcfg.enabled /\ pstage = "done" /\ pout = "timeout"
    /\ pchild = "killed" /\ pclock = pcfg.timeout

\* C13: a child killed for exceeding its memory ceiling makes
\* run_subprocess_with_limits raise MemoryError, an outcome distinct from a
\* generic non-zero exit and from a timeout.
C13_MemoryKillReported ==
    (pstage = "done" /\ pcause = "memory") => pout = "memory_error"

\* C14: with enforcement enabled, a command that runs has its address-space,
\* data-segment and CPU-time ceilings in force, set before it was exec'd.
C14_CeilingsInForce ==
    (pcfg.enabled /\ pstage \in {"running", "exited", "done"} /\ pchild # "none"
        /\ pout # "os_error")
    => /\ plimits.as = EffectiveMemoryLimit(pcfg.memory_limit)
       /\ plimits.data = EffectiveMemoryLimit(pcfg.memory_limit)
       /\ plimits.cpu = 2 * pcfg.timeout

(***************************************************************************)
(* Claims about _safe_scroll_for_lazy_loading (SpecScroll, SpecScrollFair).*)
(***************************************************************************)

\* C15: _safe_scroll_for_lazy_loading terminates, and scrolls at most
\* max_scroll_attempts times, whatever heights the page reports, a height
\* that grows on every scroll included.
C15_ScrollTerminates ==
    /\ <>(lstage = "done")
    /\ [](lscrolls <= lmax /\ lattempts <= lmax /\ Len(lhist) <= lmax)

\* C15 witness: a page that grew on every scroll was left at the cap
C15_Witness ==
    /\ lstage = "done" /\ lexit = "cap"
    /\ lmax = MaxScrollAttempts /\ lscrolls = lmax /\ linit = 100
    /\ \A i \in 1..Len(lhist) : lhist[i] > (IF i = 1 THEN linit ELSE lhist[i - 1])

\* the height measured at iteration k; iteration 0 is the initial measurement
HeightAt(k) == IF k = 0 THEN linit ELSE lhist[k]

\* a stop condition holds after iteration k: the cap is reached, the height
\* is over ten times the initial one, or iterations k-1 and k both measured
\* an unchanged height
StopHolds(k) ==
    \/ k >= lmax
    \/ HeightAt(k) > 10 * linit
    \/ k >= 2 /\ HeightAt(k) = HeightAt(k - 1) /\ HeightAt(k - 1) = HeightAt(k - 2)

\* C16: the scroll loop stops at the first iteration after which the height
\* has been unchanged for two consecutive iterations, or exceeds 10 times
\* the initial height, or the iteration count has reached
\* max_scroll_attempts: no iteration is run after one of them held, and the
\* loop is left only when one of them holds.
C16_StopsAtFirstCondition ==
    /\ lscrolls = Len(lhist)
    /\ \A k \in 0..(Len(lhist) - 1) : ~StopHolds(k)
    /\ (lstage = "done" /\ lexit # "exception") => StopHolds(Len(lhist))
    /\ (lexit = "stable" => Len(lhist) >= 2 /\ lhist[Len(lhist)] = lhist[Len(lhist) - 1])
    /\ (lexit = "runaway" => lhist[Len(lhist)] > 10 * linit)

\* C16 witness: the loop was left for a runaway height before the cap
C16_Witness ==
    /\ lstage = "done" /\ lexit = "runaway"
    /\ Len(lhist) >= 2 /\ Len(lhist) < lmax

(***************************************************************************)
(* Claims about the units of an archive (specification Spec).              *)
(***************************************************************************)

\* the logical path of the container the k-th active call unpacks: the
\* upload's name, then the relative path of each nested container in its
\* parent (the member its parent's loop is at)
RECURSIVE LogicalPath(_)
LogicalPath(k) ==
    IF k = 1 THEN stack[1].name
    ELSE LogicalPath(k - 1) \o <<"/">>
         \o SanitizeArchiveFilename(stack[k - 1].members[stack[k - 1].idx].name)

\* C17: every unit extracted from an archive has the path
\* <archive-name>/<relative-path> composed through all its ancestor
\* archives, and the member's base name as filename; so every unit returned
\* for an uploaded archive has a path below the upload's name.
C17_PathComposedThroughAncestors ==
    /\ \A k \in 1..Len(stack) : \A i \in 1..Len(stack[k].units) :
          LET f == stack[k]
              u == f.units[i]
          IN  u.fid = f.fid =>
                 \E j \in 1..Len(f.members) :
                    LET rel == SanitizeArchiveFilename(f.members[j].name)
                    IN  /\ u.path = LogicalPath(k) \o <<"/">> \o rel
                        /\ u.filename = BaseName(rel)
    /\ (status = "ok" /\ IsArchiveFormat(req.name)) =>
          \A i \in 1..Len(out) : StartsWith(out[i].path, req.name \o <<"/">>)

\* a member the loop turns into a unit: a file with a non-empty sanitized
\* name that is no system file, no container, of a supported format, whose
\* bytes can be read and parsed
YieldsUnit(m) ==
    LET safe == SanitizeArchiveFilename(m.name) IN
    /\ ~m.isdir /\ safe # <<>> /\ ~IsSystemFile(safe)
    /\ ~IsArchiveFormat(BaseName(safe)) /\ IsSupportedFormat(BaseName(safe))
    /\ m.data = "ok"

\* C18: a member that cannot be read or parsed is skipped alone: no archive
\* call raises because of it, and the units a call has built from its own
\* members are exactly those of the members processed so far that did not
\* fail.
C18_CorruptMemberSkippedAlone ==
    /\ \A x \in failed : x.cause # "member"
    /\ \A k \in 1..Len(stack) :
          LET f    == stack[k]
              own  == { i \in 1..Len(f.units) : f.units[i].fid = f.fid }
              done == { j \in 1..Len(f.members) : j < f.idx /\ YieldsUnit(f.members[j]) }
          IN  f.pc \in {"members", "walk"} =>
                 /\ Cardinality(own) = Cardinality(done)
                 /\ { f.units[i].path : i \in own }
                       = { f.name \o <<"/">> \o SanitizeArchiveFilename(f.members[j].name) :
                             j \in done }

\* C19: each _extract_from_archive call has a temporary directory of its
\* own, into which only its own members are written; the directories that
\* exist are those of the calls in progress, so none is left once the call
\* has returned or raised, whatever the exit path.
C19_TempDirOwnedAndReleased ==
    /\ \A k, l \in 1..Len(stack) : k # l => stack[k].dir # stack[l].dir
    /\ \A w \in writes : \A k \in 1..Len(stack) :
          stack[k].dir = w.dir => stack[k].fid = w.fid
    /\ \A w1, w2 \in writes : w1.dir = w2.dir => w1.fid = w2.fid
    /\ Cardinality({ stack[k].dir : k \in 1..Len(stack) }) = Len(stack)
    /\ (status \in {"ok", "error"} => stack = <<>>)

\* C19 witness: the request is over after nested calls ended by a policy
\* violation and by a corrupt container, and a member had been written
C19_Witness ==
    /\ status = "ok" /\ stack = <<>>
    /\ \E p \in policy : p.fid > 1
    /\ \E x \in failed : x.cause = "container" /\ x.fid > 1
    /\ writes # {}

\* the call made for a direct member of the call pf, of which the call fid
\* is a descendant
RECURSIVE ChildUnder(_, _)
ChildUnder(fid, pf) ==
    LET o == CHOOSE x \in opened : x.fid = fid IN
    IF o.pfid = pf \/ o.pfid = 0 THEN o ELSE ChildUnder(o.pfid, pf)

\* the unit u of the call f comes from the a-th member of the container's
\* native enumeration: it is that member's unit, or a unit of the nested
\* archive that member is
FromMember(f, u, a) ==
    IF u.fid = f.fid
    THEN u.path = f.name \o <<"/">> \o SanitizeArchiveFilename(f.listed[a].name)
    ELSE f.listed[a].name = ChildUnder(u.fid, f.fid).pname

\* C20: the units of an archive are in the container's native enumeration
\* order of their members, the units of a nested archive standing at the
\* position of that member, for zip, tar, rar and 7z.
C20_UnitsInEnumerationOrder ==
    \A k \in 1..Len(stack) :
       LET f == stack[k] IN
       \A i, j \in 1..Len(f.units) :
          i < j =>
             \E a, b \in 1..Len(f.listed) :
                a <= b /\ FromMember(f, f.units[i], a) /\ FromMember(f, f.units[j], b)


\* a member that passes the sanitizer and the system-file filter and whose
\* bytes could be read: the members _process_extracted_file is called for
ReachesDispatch(m) ==
    LET safe == SanitizeArchiveFilename(m.name) IN
    ~m.isdir /\ safe # <<>> /\ ~IsSystemFile(safe) /\ m.data # "unreadable"

\* the nested _extract_from_archive calls made so far, whether they passed
\* their guards or raised on them
NestedCalls ==
    { [fid |-> o.fid, pfid |-> o.pfid, pname |-> o.pname] : o \in opened }
       \cup { [fid |-> p.fid, pfid |-> p.pfid, pname |-> p.pname] :
                 p \in { q \in policy : q.kind \in {"nesting", "size"} } }

\* C21: every member that reaches the dispatch is handled by exactly one
\* rule, tried in this order: a member whose extension is an archive
\* extension is handed to a nested archive call and is never parsed as a
\* unit of its own; otherwise a member of a supported format whose bytes
\* parse yields exactly one unit and no nested call; otherwise the member is
\* dropped, with no unit and no nested call, and the loop goes on.
C21_OneRulePerMember ==
    \A k \in 1..Len(stack) :
       LET f == stack[k]
           \* handled, or being handled by the nested call above this one
           Begun(i) == i < f.idx \/ (i = f.idx /\ k < Len(stack))
       IN
       f.pc \in {"members", "walk"} =>
          \A j \in 1..Len(f.members) :
             (Begun(j) /\ ReachesDispatch(f.members[j])) =>
                LET m      == f.members[j]
                    safe   == SanitizeArchiveFilename(m.name)
                    ext    == GetFileExtension(BaseName(safe))
                    isarch == ext \in ArchiveExtensions
                    issupp == ext \in ArchiveExtensions \cup OtherExtensions
                    nunits == Cardinality({ i \in 1..Len(f.units) :
                                  /\ f.units[i].fid = f.fid
                                  /\ f.units[i].path = f.name \o <<"/">> \o safe })
                    ncalls == Cardinality({ c \in NestedCalls :
                                  c.pfid = f.fid /\ c.pname = m.name })
                    alike  == Cardinality({ i \in 1..Len(f.members) :
                                  /\ Begun(i) /\ ReachesDispatch(f.members[i])
                                  /\ SanitizeArchiveFilename(f.members[i].name) = safe
                                  /\ f.members[i].data = "ok" })
                    twins  == Cardinality({ i \in 1..Len(f.members) :
                                  /\ Begun(i) /\ ReachesDispatch(f.members[i])
                                  /\ f.members[i].name = m.name })
                IN  /\ isarch => nunits = 0 /\ ncalls = twins
                    /\ (~isarch /\ issupp) => ncalls = 0 /\ nunits = alike
                    /\ (~isarch /\ ~issupp) => nunits = 0 /\ ncalls = 0

\* C21 witness: a call has handed an archive member to a nested call that
\* returned the one unit of its supported member, and has dropped a member
\* of no supported format
C21_Witness ==
    \E k \in 1..Len(stack) :
       LET f == stack[k]
           Ext(j) == GetFileExtension(BaseName(SanitizeArchiveFilename(f.members[j].name)))
       IN  /\ f.pc \in {"members", "walk"}
           /\ \E a, c \in 1..Len(f.members) :
                 /\ a < f.idx /\ c < f.idx
                 /\ ReachesDispatch(f.members[a]) /\ Ext(a) \in ArchiveExtensions
                 /\ \E o \in NestedCalls :
                       /\ o.pfid = f.fid /\ o.pname = f.members[a].name
                       /\ \E i \in 1..Len(f.units) : f.units[i].fid = o.fid
                 /\ ReachesDispatch(f.members[c])
                 /\ Ext(c) \notin ArchiveExtensions \cup OtherExtensions

\* C22: extract_from_url goes through its stages in one order: the
\* validation of the URL (which resolves its host), the content-type probe,
\* then exactly one of the HTML path and the download path, then the
\* dispatch of what was fetched.  The probe starts only after the validation
\* accepted the URL and nothing is connected to before; a page fetch or a
\* download starts only after the probe returned; and the HTML path is the
\* one taken exactly when _is_html_content holds for the content type and
\* the final URL the probe returned.
C22_StagesInOrder ==
    LET names     == [i \in 1..Len(ulog) |-> ulog[i].stage]
        Begins(p) == Len(names) <= Len(p) /\ \A i \in 1..Len(names) : names[i] = p[i]
    IN  /\ \/ Begins(<<"validate", "probe", "html", "dispatch">>)
           \/ Begins(<<"validate", "probe", "download", "dispatch">>)
           \/ names = <<"validate", "probe_failed">>
        /\ (Len(ulog) < 2 => conns = {})
        /\ (Len(ulog) >= 2 => usafe = "safe" /\ IsSafeUrl(url))
        /\ (Len(ulog) >= 3 =>
              /\ ulog[2].stage = "probe"
              /\ ulog[3].ctype = ulog[2].ctype /\ ulog[3].at = ulog[2].at
              /\ (ulog[3].stage = "html") = IsHtmlContent(ulog[2].ctype, ulog[2].at)
              /\ (ulog[3].stage = "download") = ~IsHtmlContent(ulog[2].ctype, ulog[2].at))
        /\ (ures \in {"ok", "dispatched"} => Len(ulog) = 4)
        /\ (uunits # <<>> \/ dltemp # "none" => Len(ulog) >= 3)

\* C22 witness: a URL probed as text/plain whose path has no html extension
\* went down the download path and its payload was dispatched
C22_Witness ==
    /\ Len(ulog) = 4 /\ ulog[3].stage = "download" /\ ulog[4].stage = "dispatch"
    /\ ulog[2].ctype = <<"t","e","x","t","/","p","l","a","i","n">>
    /\ ures = "dispatched"

\* C23: the temporary file of a download never holds more than
\* MAX_FILE_SIZE bytes; a response declaring a Content-Length above
\* MAX_FILE_SIZE is refused before a body byte is read and before the file
\* is created; the content handed to extract_text is never larger than
\* MAX_FILE_SIZE; and the temporary file exists only while the download is
\* in progress, so it is gone on every exit path.
C23_DownloadCapped ==
    /\ dlwritten <= MAX_FILE_SIZE
    /\ (dldeclared # NoContentLength /\ dldeclared > MAX_FILE_SIZE) =>
          (dlread = 0 /\ dlwritten = 0 /\ dltemp = "none" /\ ures = "error")
    /\ (dlpayload # NoPayload => dlpayload <= MAX_FILE_SIZE /\ dlpayload = dlbody)
    /\ (dltemp = "open" => ustage = "download")
    /\ (ustage = "done" => dltemp # "open")

\* C23 witness: a server that declared MAX_FILE_SIZE bytes sent one more;
\* the download was cut with the file at the cap, and the file removed
C23_Witness ==
    /\ ustage = "done" /\ ures = "error"
    /\ dldeclared = MAX_FILE_SIZE /\ dlread > MAX_FILE_SIZE
    /\ dlwritten = MAX_FILE_SIZE /\ dltemp = "removed" /\ dlpayload = NoPayload

(***************************************************************************)
(* SpecName: get_file_extension and _is_system_file called for one name.   *)
(***************************************************************************)
InitName == NInit /\ AIdle /\ UIdle /\ SIdle /\ PIdle /\ LIdle /\ HIdle /\ KIdle

NextName ==
    \/ CallGetFileExtension
    \/ CallIsSystemFile

SpecName == InitName /\ [][NextName]_vars

\* the entries the system-file filter is documented to recognise
ListedSystemEntries ==
    { <<".","D","S","_","S","t","o","r","e">>, <<"T","h","u","m","b","s",".","d","b">>, <<".","g","i","t","/">>, <<".","s","v","n","/">>, <<".","h","g","/">>, <<"_","_","M","A","C","O","S","X","/">>,
      <<".","l","o","c","a","l","i","z","e","d">>, <<"d","e","s","k","t","o","p",".","i","n","i">>, <<"f","o","l","d","e","r",".","i","n","i">> }

\* C27: _is_system_file returns true for every path that names one of the
\* listed system entries, and false for regular_file.txt and document.pdf.
C27_SystemFilesRecognised ==
    "sys" \in ncalled =>
       /\ (\E e \in ListedSystemEntries : Contains(nname, e)) => nsys
       /\ nname \in { <<"r","e","g","u","l","a","r","_","f","i","l","e",".","t","x","t">>, <<"d","o","c","u","m","e","n","t",".","p","d","f">> } => ~nsys

\* the text after the last dot of a name
AfterLastDot(name) == Last(Split(name, "."))

\* C29: get_file_extension returns the lower-cased text after the last dot,
\* except that names ending, in any letter case, with .tar.gz or .tgz,
\* .tar.bz2 or .tbz2, .tar.xz or .txz give tar.gz, tar.bz2, tar.xz; and it
\* returns None for None, the empty string, a name without a dot and the
\* name ".".
C29_ExtensionOfName ==
    "ext" \in ncalled =>
       LET low == IF nname = NoExtension THEN <<>> ELSE Lower(nname) IN
       IF nname = NoExtension \/ nname = <<>> \/ ~HasChar(nname, ".") \/ nname = <<".">>
          THEN nres = NoExtension
       ELSE IF EndsWith(low, <<".","t","a","r",".","g","z">>) \/ EndsWith(low, <<".","t","g","z">>) THEN nres = <<"t","a","r",".","g","z">>
       ELSE IF EndsWith(low, <<".","t","a","r",".","b","z","2">>) \/ EndsWith(low, <<".","t","b","z","2">>) THEN nres = <<"t","a","r",".","b","z","2">>
       ELSE IF EndsWith(low, <<".","t","a","r",".","x","z">>) \/ EndsWith(low, <<".","t","x","z">>) THEN nres = <<"t","a","r",".","x","z">>
       ELSE nres = Lower(AfterLastDot(nname))

(***************************************************************************)
(* SpecApi: one request to /v1/extract/file or /v1/extract/base64.         *)
(***************************************************************************)
InitApi == HInit /\ AIdle /\ UIdle /\ SIdle /\ PIdle /\ LIdle /\ NIdle /\ KIdle

NextApi ==
    \/ DecodeBase64
    \/ CheckSize
    \/ CheckEmpty
    \/ CheckType
    \/ StartExtraction
    \/ ExtractionEnds
    \/ ProcessingTimeout
    \/ AbandonedThreadEnds

SpecApi == InitApi /\ [][NextApi]_vars

\* the class of a failed request, from what was asked and what happened
FailureClass ==
    IF hresp.code = 504 THEN "timeout"
    ELSE IF hchecks = <<"size">> /\ hin.size # NoSize /\ hin.size > MAX_FILE_SIZE
         THEN "oversize"
    ELSE IF hchecks = <<"size", "empty">> /\ hin.size = 0 THEN "empty"
    ELSE IF hcalled /\ ExtractionOutcome(hin) = "unsupported" THEN "unsupported"
    ELSE IF hcalled /\ ExtractionOutcome(hin) = "value_error" THEN "corrupt"
    ELSE "other"

\* the HTTP status of each class
StatusOfClass(class) ==
    CASE class = "unsupported" -> 415
      [] class = "oversize"    -> 413
      [] class = "empty"       -> 422
      [] class = "corrupt"     -> 422
      [] class = "timeout"     -> 504

Failed == hstage = "done" /\ hresp.code # 200

\* C24 as stated: every failed request answers a body with status "error",
\* the filename and a message, and the HTTP status of its class.
C24_ErrorBodyAndStatus ==
    Failed =>
       /\ hresp.body.status = "error" /\ hresp.body.filename = hin.filename
       /\ hresp.body.message
       /\ (FailureClass # "other" => hresp.code = StatusOfClass(FailureClass))

\* C24 amended: every failed request answers the HTTP status of its class:
\* unsupported format 415, oversize 413, empty 422, corrupt 422, timeout
\* 504.  The body is {status: "error", filename, message}, except for the
\* oversize and the empty upload, which are raised as HTTPException and
\* carry the framework's {detail} body.
C24_StatusByClassBodyByHandler ==
    Failed =>
       /\ (FailureClass # "other" => hresp.code = StatusOfClass(FailureClass))
       /\ IF FailureClass \in {"oversize", "empty"}
          THEN hresp.body.detail /\ hresp.body.status = "absent" /\ ~hresp.body.message
          ELSE /\ hresp.body.status = "error" /\ hresp.body.filename = hin.filename
               /\ hresp.body.message /\ ~hresp.body.detail

\* C24 witness: an upload whose sanitized name has no supported format was
\* answered 415 with the error body
C24_Witness ==
    /\ Failed /\ FailureClass = "unsupported"
    /\ hresp.code = 415 /\ hresp.body.status = "error"

\* C25: when the processing time limit is exceeded the request fails as a
\* whole: the timeout error is answered with no unit list, the external
\* process in flight is killed and the temporary directory is removed.
C25_TimeoutIsAtomic ==
    hresp.code = 504 =>
       /\ hresp.body.status = "error" /\ ~hresp.body.files
       /\ hproc # "alive"
       /\ htmp # "exists"

\* C28: an exception of extract_text that is no ValueError is answered with
\* HTTP 500 and a body whose status is "error".
C28_UnexpectedExceptionIs500 ==
    (hstage = "done" /\ hcalled /\ hresp.code # 504
        /\ ExtractionOutcome(hin) = "exception") =>
       (hresp.code = 500 /\ hresp.body.status = "error")

\* the checks in the order the handlers make them
CheckOrder == <<"size", "empty", "type">>

\* C30: the checks are made in one order, size, emptiness, type, each only
\* after the one before passed, and text_extractor.extract_text is invoked
\* only for a content that is not empty, not larger than MAX_FILE_SIZE, and
\* whose type validation succeeded.
C30_ChecksBeforeExtraction ==
    /\ Len(hchecks) <= Len(CheckOrder)
    /\ \A i \in 1..Len(hchecks) : hchecks[i] = CheckOrder[i]
    /\ (Len(hchecks) >= 2 => hin.size # NoSize /\ hin.size <= MAX_FILE_SIZE)
    /\ (Len(hchecks) >= 3 => hin.size > 0)
    /\ hcalled =>
          /\ hchecks = CheckOrder
          /\ hin.size # NoSize /\ hin.size > 0 /\ hin.size <= MAX_FILE_SIZE
          /\ hin.mime_ok /\ GetFileExtension(hin.filename) \notin {NoExtension, <<>>}
    /\ (hworker # "none" \/ hproc # "none" \/ htmp # "none") => hcalled

\* C30 witness: an upload of exactly MAX_FILE_SIZE bytes went through the
\* three checks and was handed to extract_text
C30_Witness ==
    /\ hcalled /\ hin.size = MAX_FILE_SIZE /\ hchecks = CheckOrder
    /\ hstage = "done" /\ hresp.code = 200

(***************************************************************************)
(* SpecConc: two archive requests interleaved on the shared extractor.     *)
(***************************************************************************)
InitConc == KInit /\ AIdle /\ UIdle /\ SIdle /\ PIdle /\ LIdle /\ NIdle /\ HIdle

NextConc ==
    \/ EnterArchiveStep
    \/ PrescanStep
    \/ ExtractMemberStep
    \/ ReturnStep

SpecConc == InitConc /\ [][NextConc]_vars

=============================================================================
